---------------------------- MODULE Spec2Model ----------------------------
(***************************************************************************)
(* Flood early-warning core of mlflood: the rolling-window aggregation     *)
(* done by DataCollector.collect_weather_data and predict_realtime, the    *)
(* AnomalyDetector, the ForecastService and the risk classifier.           *)
(*                                                                         *)
(* Units.  Rainfall is an integer number of thousandths of a millimetre    *)
(* (so 5.0 mm is 5000); round(x, 2) of the source is therefore rounding to *)
(* a multiple of 10.  Wall-clock time is an integer number of seconds.     *)
(* Risk scores and anomaly scores are integers in hundredths.              *)
(***************************************************************************)
EXTENDS Integers, Sequences, FiniteSets, TLC

VARIABLES
    clock,          \* datetime.now(): the wall clock, in seconds
    db,             \* table rainfall_observations, in insertion (id) order
    model_loaded,   \* main.py: model is not None
    c_pc,           \* collect_weather_data: how its last call ended,
                    \*   "idle" (no call yet) | "skipped" | "failed" | "stored"
    c_now,          \* its local now (line 42) in the last call that stored a row
    c_fault,        \* the step of its last call that raised, or "none"
    c_propagated,   \* whether its last call let an exception out
    c_session,      \* the database session of its last call: "none" | "closed"
    dc,             \* the DataCollector instance: is_running, its scheduler
                    \*   and the scheduler's jobs
    dc_call,        \* the last start, stop or collect_now call
    p_pc,           \* predict_realtime: "idle" | "fetched" | "done" | "unavailable"
    p_loc,          \* its arguments <<lat, lon>>
    p_weather,      \* its local weather
    p_now,          \* its local now (line 232)
    p_seen,         \* number of rows in the table when its query ran
    p_windows,      \* its locals rain_values_* / rain_sum_* / rain_max_*
    det,            \* the AnomalyDetector instance: model, scaler, is_fitted
    det_out,        \* the last AnomalyDetector.detect call: its argument, the
                    \*   is_fitted it found and what it returned
    fs,             \* the ForecastService instance: rainfall_model, scaler, is_trained
    fs_call,        \* the last forecast_rainfall call: its arguments, the
                    \*   is_trained it found, its local rain_history and the
                    \*   feature row of every step
    fs_out,         \* the list that call returned
    risk_out,       \* the list forecast_flood_risk returned for fs_out, once
                    \*   it has been called on it
    det_file,       \* the file AnomalyDetector.save writes and load reads
    det_spike,      \* the last detect_sudden_spike call: its arguments and result
    det_train,      \* the last train_anomaly_detector call: its path and what it did
    fs_train,       \* the last train_simple_forecast call: the rows of its frame
    fs_trend,       \* the last get_trend_analysis call: its arguments, locals and result
    fit_pc,         \* a fit in progress: the statement it has reached and its
                    \*   training set
    det_pc,         \* a detect in progress: the statement it has reached and
                    \*   the scaler it used
    det_read,       \* what the last finished detect found in is_fitted,
                    \*   scaler and model
    train_pc,       \* a train_simple_forecast in progress, and its regression
    fc_pc,          \* a forecast_rainfall in progress, and the scaler it used
    fc_read,        \* what the last finished forecast_rainfall found in
                    \*   is_trained, scaler and rainfall_model
    en_row,         \* the row engineer_features was last given, and its
                    \*   include_lags
    en_once,        \* engineer_features(en_row)
    en_twice,       \* engineer_features(en_once)
    rt_call,        \* the last rain_trend computed in the three places: the
                    \*   sums and the three values
    risk_calls      \* the last two get_risk_level calls: the score and what
                    \*   each of the three copies of the function returned

aggVars  == <<clock, db, model_loaded, c_pc, c_now, c_fault, c_propagated,
              c_session, dc, dc_call,
              p_pc, p_loc, p_weather, p_now, p_seen, p_windows>>
detVars  == <<det, det_out, det_file, det_spike, det_train>>
fsVars   == <<fs, fs_call, fs_out, risk_out, fs_train, fs_trend>>
riskVars == <<risk_calls>>
ccVars   == <<fit_pc, det_pc, det_read, train_pc, fc_pc, fc_read>>
enVars   == <<en_row, en_once, en_twice, rt_call>>
vars     == <<aggVars, detVars, fsVars, riskVars, ccVars, enVars>>

-----------------------------------------------------------------------------
(* Bounds of the model. *)

MaxObs   == 2     \* rows the collector may store

-----------------------------------------------------------------------------
(* Program constants. *)

CHENNAI_LAT == 130827     \* 13.0827, in 1e-4 degrees
CHENNAI_LON == 802707     \* 80.2707
WINDOW_1H   == 3600
WINDOW_3H   == 10800
WINDOW_6H   == 21600
WINDOW_12H  == 43200
WINDOW_24H  == 86400      \* timedelta(hours=24)

-----------------------------------------------------------------------------
(* Generic helpers on sequences. *)

RECURSIVE SelectObsStrict(_, _, _)
\* the comprehension with < in place of <=
SelectObsStrict(s, now, w) ==
    IF s = <<>> THEN <<>>
    ELSE IF now - Head(s).timestamp < w
         THEN <<Head(s)>> \o SelectObsStrict(Tail(s), now, w)
         ELSE SelectObsStrict(Tail(s), now, w)

RECURSIVE SelectObsOlder(_, _, _)
\* the comprehension with >= in place of <=
SelectObsOlder(s, now, w) ==
    IF s = <<>> THEN <<>>
    ELSE IF now - Head(s).timestamp >= w
         THEN <<Head(s)>> \o SelectObsOlder(Tail(s), now, w)
         ELSE SelectObsOlder(Tail(s), now, w)

RECURSIVE SelectObs(_, _, _)
\* [x for x in s if keep(x)] where keep(x) is  now - x.timestamp <= w
SelectObs(s, now, w) ==
    IF s = <<>> THEN <<>>
    ELSE IF now - Head(s).timestamp <= w
         THEN <<Head(s)>> \o SelectObs(Tail(s), now, w)
         ELSE SelectObs(Tail(s), now, w)

RECURSIVE PySum(_)
\* sum(obs.rain_mm for obs in s)
PySum(s) == IF s = <<>> THEN 0 ELSE Head(s).rain_mm + PySum(Tail(s))

RECURSIVE PyMaxOf(_)
PyMaxOf(xs) ==
    IF Len(xs) = 1 THEN xs[1]
    ELSE LET m == PyMaxOf(Tail(xs)) IN IF xs[1] >= m THEN xs[1] ELSE m

\* max(xs, default=d)
PyMax(xs, d) == IF xs = <<>> THEN d ELSE PyMaxOf(xs)

RainOf(s) == [i \in 1..Len(s) |-> s[i].rain_mm]


-----------------------------------------------------------------------------
(* Risk Classifier: get_risk_level, three copies.  A score is an integer     *)
(* number of hundredths, so 0.3 is 30.                                       *)

RISK_MODERATE == 30     \* RISK_THRESHOLDS["moderate"] = 0.3
RISK_HIGH     == 60     \* RISK_THRESHOLDS["high"] = 0.6
RISK_CRITICAL == 80     \* RISK_THRESHOLDS["critical"] = 0.8

MaxScore == 105         \* scores range over -5 .. MaxScore hundredths

Scores == -5..MaxScore

\* get_risk_level with <= at the first threshold
get_risk_level_inclusive(risk_score) ==
    IF risk_score <= RISK_MODERATE THEN "low"
    ELSE IF risk_score < RISK_HIGH THEN "moderate"
    ELSE IF risk_score < RISK_CRITICAL THEN "high"
    ELSE "critical"

\* app/main.py
get_risk_level(risk_score) ==
    IF risk_score < RISK_MODERATE THEN "low"
    ELSE IF risk_score < RISK_HIGH THEN "moderate"
    ELSE IF risk_score < RISK_CRITICAL THEN "high"
    ELSE "critical"

\* scripts/import_chennai_wards.py
import_get_risk_level(risk_score) ==
    IF risk_score < RISK_MODERATE THEN "low"
    ELSE IF risk_score < RISK_HIGH THEN "moderate"
    ELSE IF risk_score < RISK_CRITICAL THEN "high"
    ELSE "critical"

\* scripts/migrate_csv_to_db.py, with its own literals 0.3, 0.6, 0.8
migrate_get_risk_level(risk) ==
    IF risk < 30 THEN "low"
    ELSE IF risk < 60 THEN "moderate"
    ELSE IF risk < 80 THEN "high"
    ELSE "critical"

\* One score classified by the point prediction (main.py:293) and by the two
\* ward imports (import_chennai_wards.py:50, migrate_csv_to_db.py:140).
ClassifyRisk ==
    /\ \E s \in Scores :
        risk_calls' = (IF risk_calls = <<>> THEN <<>>
                       ELSE <<risk_calls[Len(risk_calls)]>>)
                        \o <<[score   |-> s,
                              main    |-> get_risk_level(s),
                              import  |-> import_get_risk_level(s),
                              migrate |-> migrate_get_risk_level(s)]>>
    /\ UNCHANGED <<aggVars, detVars, fsVars, ccVars, enVars>>

-----------------------------------------------------------------------------
(* Anomaly Scorer: AnomalyDetector.  An anomaly score is an integer number   *)
(* of hundredths, so -0.5 is -50.                                            *)

MaxFits == 3            \* training sets the detector can be fitted on

feature_names == {"rain_mm", "rain_sum_3h", "rain_sum_24h", "rain_max_3h", "rain_trend"}

\* current_data.get(key, default)
DictGet(d, key, default) == IF key \in DOMAIN d THEN d[key] ELSE default

EmptyDict == [k \in {} |-> 0]

\* The dictionaries detect is called with: none of the keys, the five keys
\* predict_realtime and /api/anomaly/detect pass, some of them, and a
\* dictionary with another key.
DetectInputs ==
    {EmptyDict,
     [k \in feature_names |-> IF k = "rain_trend" THEN 0 ELSE 5000],
     [k \in {"rain_mm", "rain_sum_3h"} |-> 0],
     [k \in {"temp_c", "rain_mm"} |-> 2000]}

\* What a fitted IsolationForest can answer for one sample: score_samples
\* and whether predict is -1.
ModelScores == {-60, -50, -40, -30, -20}

\* AnomalyDetector.__init__
NewDetector == [model |-> 0, scaler |-> 0, is_fitted |-> FALSE]

NoDetect == [call |-> "none", current_data |-> EmptyDict, is_fitted |-> FALSE,
             raised |-> FALSE, result |-> EmptyDict]

\* lines 97-110 with <= in place of <
SeverityInclusive(is_anomaly, anomaly_score) ==
    IF is_anomaly
    THEN IF anomaly_score <= -50 THEN "critical"
         ELSE IF anomaly_score <= -30 THEN "high"
         ELSE "moderate"
    ELSE "low"

\* lines 97-110
Severity(is_anomaly, anomaly_score) ==
    IF is_anomaly
    THEN IF anomaly_score < -50 THEN "critical"
         ELSE IF anomaly_score < -30 THEN "high"
         ELSE "moderate"
    ELSE "low"

\* detect, lines 81-118: the fitted scaler and model are used; a scaler or
\* a model that was never fitted raises NotFittedError.
DetectTrained(d, current_data, anomaly_score, is_anomaly) ==
    IF d.scaler = 0 \/ d.model = 0
    THEN [call |-> "detect", current_data |-> current_data,
          is_fitted |-> d.is_fitted, raised |-> TRUE, result |-> EmptyDict]
    ELSE [call |-> "detect", current_data |-> current_data,
          is_fitted |-> d.is_fitted, raised |-> FALSE,
          result |-> [anomaly_score |-> anomaly_score,
                      is_anomaly |-> is_anomaly,
                      severity |-> Severity(is_anomaly, anomaly_score)]]

\* detect without the is_fitted test of line 73
DetectUnguarded(d, current_data, anomaly_score, is_anomaly) ==
    DetectTrained(d, current_data, anomaly_score, is_anomaly)

\* AnomalyDetector.detect on detector d, where anomaly_score and is_anomaly
\* are what the fitted model answers for the scaled features.
Detect(d, current_data, anomaly_score, is_anomaly) ==
    IF ~d.is_fitted
    THEN [call |-> "detect", current_data |-> current_data,
          is_fitted |-> FALSE, raised |-> FALSE,
          result |-> [anomaly_score |-> 0, is_anomaly |-> FALSE,
                      severity |-> "unknown"]]
    ELSE DetectTrained(d, current_data, anomaly_score, is_anomaly)

\* AnomalyDetector.fit on the k-th training set: the scaler and the model
\* are fitted on it (a fitted object is named by its training set).
fit ==
    /\ \E k \in 1..MaxFits :
         det' = [model |-> k, scaler |-> k, is_fitted |-> TRUE]
    /\ UNCHANGED <<det_out, det_file, det_spike, det_train>>
    /\ UNCHANGED <<aggVars, fsVars, riskVars, ccVars, enVars>>

detect ==
    /\ \E current_data \in DetectInputs, anomaly_score \in ModelScores,
          is_anomaly \in BOOLEAN :
         det_out' = Detect(det, current_data, anomaly_score, is_anomaly)
    /\ UNCHANGED <<det, det_file, det_spike, det_train>>
    /\ UNCHANGED <<aggVars, fsVars, riskVars, ccVars, enVars>>

\* What is on disk before the first save: nothing
NoFile == [saved |-> FALSE, model |-> 0, scaler |-> 0, is_fitted |-> FALSE]

\* AnomalyDetector.save: joblib.dump of model, scaler and is_fitted, in
\* whatever training state the detector is
save ==
    /\ det_file' = [saved |-> TRUE, model |-> det.model, scaler |-> det.scaler,
                    is_fitted |-> det.is_fitted]
    /\ UNCHANGED <<det, det_out, det_spike, det_train>>
    /\ UNCHANGED <<aggVars, fsVars, riskVars, ccVars, enVars>>

\* AnomalyDetector.load: the three attributes are taken from the file;
\* joblib.load raises when there is no file and nothing is assigned
load ==
    /\ det' = IF det_file.saved
              THEN [model |-> det_file.model, scaler |-> det_file.scaler,
                    is_fitted |-> det_file.is_fitted]
              ELSE det
    /\ UNCHANGED <<det_out, det_file, det_spike, det_train>>
    /\ UNCHANGED <<aggVars, fsVars, riskVars, ccVars, enVars>>

SPIKE_THRESHOLD == 2000      \* threshold: float = 2.0, in thousandths
SPIKE_AVG_FLOOR == 100       \* recent_avg = 0.1, in thousandths of a millimetre

\* The arguments detect_sudden_spike is called with: rainfall in thousandths
\* of a millimetre, the threshold in thousandths.
SpikeRain       == {0, 2000, 3000, 4000}
SpikeAvg        == {0, 1000, -1000}
SpikeThresholds == {SPIKE_THRESHOLD, SPIKE_THRESHOLD \div 2, 0, -(SPIKE_THRESHOLD \div 2)}

NoSpike == [call |-> "none", current_rain |-> 0, recent_avg |-> 0, threshold |-> 0,
            before |-> NewDetector, result |-> EmptyDict]

\* ratio >= t, for the quotient ratio = num / den kept as its two terms and
\* t in thousandths
RatioGE(ratio, t) ==
    IF ratio.den > 0 THEN 1000 * ratio.num >= t * ratio.den
    ELSE 1000 * ratio.num <= t * ratio.den

\* is_spike = ratio > threshold
DetectSuddenSpikeStrict(current_rain, recent_avg, threshold) ==
    LET avg == IF recent_avg = 0 THEN SPIKE_AVG_FLOOR ELSE recent_avg
        ratio == [num |-> current_rain, den |-> avg]
        is_spike == ~RatioGE([num |-> -ratio.num, den |-> ratio.den], -threshold)
    IN [is_spike |-> is_spike, spike_ratio |-> ratio,
        current_rain |-> current_rain, recent_avg |-> avg,
        threshold |-> threshold,
        severity |-> IF RatioGE(ratio, threshold * 2) THEN "high"
                     ELSE IF is_spike THEN "moderate" ELSE "low"]

\* severity without the test of is_spike: "moderate" whenever not "high"
DetectSuddenSpikeNeverLow(current_rain, recent_avg, threshold) ==
    LET avg == IF recent_avg = 0 THEN SPIKE_AVG_FLOOR ELSE recent_avg
        ratio == [num |-> current_rain, den |-> avg]
        is_spike == RatioGE(ratio, threshold)
    IN [is_spike |-> is_spike, spike_ratio |-> ratio,
        current_rain |-> current_rain, recent_avg |-> avg,
        threshold |-> threshold,
        severity |-> IF RatioGE(ratio, threshold * 2) THEN "high"
                     ELSE "moderate"]

\* AnomalyDetector.detect_sudden_spike, lines 132-146
DetectSuddenSpike(current_rain, recent_avg, threshold) ==
    LET avg == IF recent_avg = 0 THEN SPIKE_AVG_FLOOR ELSE recent_avg
        ratio == [num |-> current_rain, den |-> avg]
        is_spike == RatioGE(ratio, threshold)
    IN [is_spike |-> is_spike, spike_ratio |-> ratio,
        current_rain |-> current_rain, recent_avg |-> avg,
        threshold |-> threshold,
        severity |-> IF RatioGE(ratio, threshold * 2) THEN "high"
                     ELSE IF is_spike THEN "moderate" ELSE "low"]

detect_sudden_spike ==
    /\ \E current_rain \in SpikeRain, recent_avg \in SpikeAvg,
          threshold \in SpikeThresholds :
         det_spike' = [call |-> "detect_sudden_spike",
                       current_rain |-> current_rain,
                       recent_avg |-> recent_avg, threshold |-> threshold,
                       before |-> det,
                       result |-> DetectSuddenSpike(current_rain, recent_avg,
                                                    threshold)]
    /\ UNCHANGED <<det, det_out, det_file, det_train>>
    /\ UNCHANGED <<aggVars, fsVars, riskVars, ccVars, enVars>>

MIN_SAMPLES == 100           \* min_samples: int = 100

\* train_anomaly_detector is given a database session or none (the CSV file
\* is read then); the rows the query or the file yields
TrainPaths   == {"db_session", "csv"}
DetTrainRows == {0, MIN_SAMPLES - 1, MIN_SAMPLES}

NoDetTrain == [call |-> "none", path |-> "csv", rows |-> 0, min_samples |-> 0,
               fit_called |-> FALSE, returned |-> FALSE, detector |-> NewDetector]

\* train_anomaly_detector, lines 176-206: the row count is tested on the
\* database path only; fit on a frame without rows raises inside
\* scaler.fit_transform, and the exception leaves the function
TrainAnomalyDetector(path, rows, min_samples, k) ==
    IF path = "db_session" /\ rows < min_samples
    THEN [call |-> "train_anomaly_detector", path |-> path, rows |-> rows,
          min_samples |-> min_samples,
          fit_called |-> FALSE, returned |-> FALSE, detector |-> NewDetector]
    ELSE IF rows = 0
    THEN [call |-> "train_anomaly_detector", path |-> path, rows |-> rows,
          min_samples |-> min_samples,
          fit_called |-> TRUE, returned |-> FALSE, detector |-> NewDetector]
    ELSE [call |-> "train_anomaly_detector", path |-> path, rows |-> rows,
          min_samples |-> min_samples,
          fit_called |-> TRUE, returned |-> TRUE,
          detector |-> [model |-> k, scaler |-> k, is_fitted |-> TRUE]]

\* a call whose detector the caller does not install
train_anomaly_detector ==
    /\ \E path \in TrainPaths, rows \in DetTrainRows, k \in 1..MaxFits :
         det_train' = TrainAnomalyDetector(path, rows, MIN_SAMPLES, k)
    /\ UNCHANGED <<det, det_out, det_file, det_spike>>
    /\ UNCHANGED <<aggVars, fsVars, riskVars, ccVars, enVars>>

-----------------------------------------------------------------------------
(* Forecast Engine: ForecastService.                                         *)

MIN_TRAIN_ROWS      == 24         \* len(historical_data) < 24
RISK_RAIN_CRITICAL  == 100000     \* cumulative_rain > 100
RISK_RAIN_HIGH      == 50000      \* cumulative_rain > 50
RISK_RAIN_MODERATE  == 25000      \* cumulative_rain > 25

MaxHours == 6           \* hours_ahead ranges over 0 .. MaxHours

\* round(x, 2) of a value in thousandths: the nearest multiple of 10, a tie
\* going to the even hundredth as Python does for a float that is exactly
\* halfway (0.125 -> 0.12, 2.375 -> 2.38).
Round2(x) ==
    LET q == x \div 10
        r == x % 10
    IN IF r < 5 THEN 10 * q
       ELSE IF r > 5 THEN 10 * (q + 1)
       ELSE IF q % 2 = 0 THEN 10 * q ELSE 10 * (q + 1)

\* current_data of forecast_rainfall: with a reading, or without the key.
\* Readings ending in 5 thousandths are multiples of 0.125, exact as floats.
SeedRain == {-1000, 0, 123, 2375, 25000, 30000}
ForecastInputs == {EmptyDict} \cup {[k \in {"rain_mm"} |-> r] : r \in SeedRain}

\* datetime.now() of a forecast: its hour and day of the year
ForecastNows == {[hour |-> 10, yday |-> 180], [hour |-> 23, yday |-> 365]}

\* now + timedelta(hours=hour): .hour and .timetuple().tm_yday, in a year of
\* 365 days
ForecastTime(now, hour) ==
    LET t == now.hour + hour
    IN [hour |-> t % 24, yday |-> ((now.yday - 1 + (t \div 24)) % 365) + 1]

\* What train_simple_forecast can leave in rainfall_model and scaler: a
\* linear regression on the scaled features is an affine function of the
\* five features, given here by its intercept and weights on the raw
\* features.  The scaler is named by the fit it belongs to.
NoModel == [name |-> "None", intercept |-> 0, w_hour |-> 0, w_day |-> 0,
            w_lag1 |-> 0, w_lag3 |-> 0, w_avg6 |-> 0]
FittedModels ==
    {[name |-> "carry",  intercept |-> 0,    w_hour |-> 0,   w_day |-> 0,
      w_lag1 |-> 1,  w_lag3 |-> 0, w_avg6 |-> 0],
     [name |-> "decay",  intercept |-> -500, w_hour |-> 0,   w_day |-> 0,
      w_lag1 |-> 1,  w_lag3 |-> 0, w_avg6 |-> 0],
     [name |-> "mixed",  intercept |-> 200,  w_hour |-> -10, w_day |-> 1,
      w_lag1 |-> 0,  w_lag3 |-> 1, w_avg6 |-> 1],
     [name |-> "mirror", intercept |-> 0,    w_hour |-> 0,   w_day |-> 0,
      w_lag1 |-> -1, w_lag3 |-> 0, w_avg6 |-> 0]}

\* The number of rows of the frames train_simple_forecast is called with
TrainRows == {0, MIN_TRAIN_ROWS - 1, MIN_TRAIN_ROWS}

\* ForecastService.__init__
NewForecastService == [rainfall_model |-> NoModel, scaler |-> "unfitted",
                       is_trained |-> FALSE]

NoForecastCall == [call |-> "none", current_data |-> EmptyDict, hours_ahead |-> 0,
                   now |-> [hour |-> 0, yday |-> 1], is_trained |-> FALSE,
                   rain_history |-> <<>>, raw |-> <<>>, features |-> <<>>]
NoRisk == [called |-> FALSE, risk_forecasts |-> <<>>]

\* self.rainfall_model.predict(self.scaler.transform(features))[0]
Predict(m, f) ==
    m.intercept + m.w_hour * f.hour_of_day + m.w_day * f.day_of_year
        + m.w_lag1 * f.rain_lag_1h + m.w_lag3 * f.rain_lag_3h
        + m.w_avg6 * f.rain_avg_6h

RECURSIVE SeqSum(_)
SeqSum(xs) == IF xs = <<>> THEN 0 ELSE Head(xs) + SeqSum(Tail(xs))

\* np.mean(xs), to a thousandth of a millimetre
Mean(xs) == SeqSum(xs) \div Len(xs)

\* the prediction as it is, negative or not
ClampNone(x) == x

\* max(0, x)
Clamp(x) == IF x > 0 THEN x ELSE 0

\* the lags taken from the current reading at every step
LagFeaturesOfSeed(rain_history, last_rain) ==
    [rain_lag_1h |-> last_rain, rain_lag_3h |-> last_rain,
     rain_avg_6h |-> last_rain]

\* lines 87-89: the lag and mean features taken from rain_history
LagFeatures(rain_history, last_rain) ==
    LET n == Len(rain_history)
    IN [rain_lag_1h |-> IF n >= 1 THEN rain_history[n] ELSE last_rain,
        rain_lag_3h |-> IF n >= 3 THEN rain_history[n - 2] ELSE last_rain,
        rain_avg_6h |-> IF n >= 6 THEN Mean(SubSeq(rain_history, n - 5, n))
                        ELSE last_rain]

RECURSIVE ForecastLoop(_, _, _, _, _, _)
\* lines 79-111, from iteration `hour` on; acc holds rain_history, the
\* predictions before max(0, .), the feature rows and the forecasts so far
ForecastLoop(m, last_rain, now, hour, hours_ahead, acc) ==
    IF hour > hours_ahead THEN acc
    ELSE LET forecast_time == ForecastTime(now, hour)
             lags == LagFeatures(acc.rain_history, last_rain)
             features == [hour_of_day |-> forecast_time.hour,
                          day_of_year |-> forecast_time.yday,
                          rain_lag_1h |-> lags.rain_lag_1h,
                          rain_lag_3h |-> lags.rain_lag_3h,
                          rain_avg_6h |-> lags.rain_avg_6h]
             raw == Predict(m, features)
             predicted_rain == Clamp(raw)
         IN ForecastLoop(m, last_rain, now, hour + 1, hours_ahead,
                [rain_history |-> Append(acc.rain_history, predicted_rain),
                 raw |-> Append(acc.raw, raw),
                 features |-> Append(acc.features, features),
                 forecasts |-> Append(acc.forecasts,
                     [timestamp |-> forecast_time,
                      hours_ahead |-> hour,
                      rainfall_mm |-> Round2(predicted_rain),
                      confidence |-> "medium"])])

\* for hour in range(0, hours_ahead)
PersistenceFromZero(current_data, hours_ahead, now) ==
    LET current_rain == DictGet(current_data, "rain_mm", 0)
    IN [hour \in 1..hours_ahead |->
            [timestamp |-> ForecastTime(now, hour - 1),
             hours_ahead |-> hour - 1,
             rainfall_mm |-> Round2(current_rain),
             confidence |-> "low",
             method |-> "persistence"]]

\* ForecastService._persistence_forecast
PersistenceForecast(current_data, hours_ahead, now) ==
    LET current_rain == DictGet(current_data, "rain_mm", 0)
    IN [hour \in 1..hours_ahead |->
            [timestamp |-> ForecastTime(now, hour),
             hours_ahead |-> hour,
             rainfall_mm |-> Round2(current_rain),
             confidence |-> "low",
             method |-> "persistence"]]

\* ForecastService.forecast_rainfall on service f: the locals at return
ForecastRainfall(f, current_data, hours_ahead, now) ==
    IF ~f.is_trained
    THEN [rain_history |-> <<>>, raw |-> <<>>, features |-> <<>>,
          forecasts |-> PersistenceForecast(current_data, hours_ahead, now)]
    ELSE LET last_rain == DictGet(current_data, "rain_mm", 0)
         IN ForecastLoop(f.rainfall_model, last_rain, now, 1, hours_ahead,
                         [rain_history |-> <<last_rain>>, raw |-> <<>>,
                          features |-> <<>>, forecasts |-> <<>>])

\* cumulative_rain = forecast['rainfall_mm']
AccumulateOverwrite(cumulative_rain, rainfall_mm) == rainfall_mm

\* cumulative_rain += forecast['rainfall_mm']
Accumulate(cumulative_rain, rainfall_mm) == cumulative_rain + rainfall_mm

\* lines 154-165 with >= in place of >
RiskOfRainInclusive(cumulative_rain) ==
    IF cumulative_rain >= RISK_RAIN_CRITICAL
    THEN [risk_level |-> "critical", risk_score |-> 90]
    ELSE IF cumulative_rain >= RISK_RAIN_HIGH
    THEN [risk_level |-> "high", risk_score |-> 70]
    ELSE IF cumulative_rain >= RISK_RAIN_MODERATE
    THEN [risk_level |-> "moderate", risk_score |-> 50]
    ELSE [risk_level |-> "low", risk_score |-> 30]

\* lines 154-165
RiskOfRain(cumulative_rain) ==
    IF cumulative_rain > RISK_RAIN_CRITICAL
    THEN [risk_level |-> "critical", risk_score |-> 90]
    ELSE IF cumulative_rain > RISK_RAIN_HIGH
    THEN [risk_level |-> "high", risk_score |-> 70]
    ELSE IF cumulative_rain > RISK_RAIN_MODERATE
    THEN [risk_level |-> "moderate", risk_score |-> 50]
    ELSE [risk_level |-> "low", risk_score |-> 30]

RECURSIVE RiskLoop(_, _, _)
\* lines 149-174 over the rest of rainfall_forecast
RiskLoop(rainfall_forecast, cumulative_rain, risk_forecasts) ==
    IF rainfall_forecast = <<>> THEN risk_forecasts
    ELSE LET forecast == Head(rainfall_forecast)
             cum == Accumulate(cumulative_rain, forecast.rainfall_mm)
             risk == RiskOfRain(cum)
         IN RiskLoop(Tail(rainfall_forecast), cum,
                Append(risk_forecasts,
                    [timestamp |-> forecast.timestamp,
                     hours_ahead |-> forecast.hours_ahead,
                     cumulative_rainfall_mm |-> Round2(cum),
                     risk_level |-> risk.risk_level,
                     risk_score |-> risk.risk_score,
                     rainfall_mm |-> forecast.rainfall_mm]))

\* ForecastService.forecast_flood_risk; current_conditions is not read
ForecastFloodRisk(rainfall_forecast) == RiskLoop(rainfall_forecast, 0, <<>>)

NoTrain == [call |-> "none", rows |-> 0]

\* if len(historical_data) <= 24: return
TrainRefuseAtMin(f, rows, m) ==
    IF rows <= MIN_TRAIN_ROWS
    THEN f
    ELSE [rainfall_model |-> m, scaler |-> m.name, is_trained |-> TRUE]

\* ForecastService.train_simple_forecast on service f: the service after
\* the call on a frame of `rows` rows whose regression is m
TrainSimpleForecast(f, rows, m) ==
    IF rows < MIN_TRAIN_ROWS
    THEN f
    ELSE [rainfall_model |-> m, scaler |-> m.name, is_trained |-> TRUE]

\* train_simple_forecast on a frame of `rows` rows whose regression is m
train_simple_forecast ==
    /\ \E rows \in TrainRows, m \in FittedModels :
        /\ fs' = TrainSimpleForecast(fs, rows, m)
        /\ fs_train' = [call |-> "train_simple_forecast", rows |-> rows]
    /\ UNCHANGED <<fs_call, fs_out, risk_out, fs_trend>>
    /\ UNCHANGED <<aggVars, detVars, riskVars, ccVars, enVars>>

forecast_rainfall ==
    /\ \E current_data \in ForecastInputs, hours_ahead \in 0..MaxHours,
          now \in ForecastNows :
        LET ret == ForecastRainfall(fs, current_data, hours_ahead, now)
        IN /\ fs_call' = [call |-> "forecast_rainfall",
                          current_data |-> current_data,
                          hours_ahead |-> hours_ahead, now |-> now,
                          is_trained |-> fs.is_trained,
                          rain_history |-> ret.rain_history, raw |-> ret.raw,
                          features |-> ret.features]
           /\ fs_out' = ret.forecasts
    /\ risk_out' = NoRisk
    /\ UNCHANGED <<fs, fs_train, fs_trend>>
    /\ UNCHANGED <<aggVars, detVars, riskVars, ccVars, enVars>>

\* forecast_flood_risk on the forecast just made, as main.py:398-401 calls it
forecast_flood_risk ==
    /\ fs_call.call = "forecast_rainfall"
    /\ risk_out' = [called |-> TRUE, risk_forecasts |-> ForecastFloodRisk(fs_out)]
    /\ UNCHANGED <<fs, fs_call, fs_out, fs_train, fs_trend>>
    /\ UNCHANGED <<aggVars, detVars, riskVars, ccVars, enVars>>

TREND_RISING  == 20       \* change_rate > 20
TREND_FALLING == -20      \* change_rate < -20
TREND_RECENT  == 6        \* tail(6), head(len(df) - 6)
TREND_OFFSET  == 100      \* older_avg + 0.1, in thousandths of a millimetre

\* The rain_mm column of the frames get_trend_analysis is called with, in
\* the order of their timestamps, one reading an hour
TrendReadings ==
    {<<>>, <<10000>>, <<10000, 20000>>, <<10000, 14040>>, <<10000, 5960>>,
     <<10000, 10000>>, <<30000, 20000, 10000>>,
     <<0, 0, 1000, 2000, 3000, 4000, 5000>>,
     <<6000, 0, 1000, 2000, 3000, 40000, 5000, 0>>}
TrendOrders == {"ascending", "descending", "rotated"}
TrendHours  == {0, 1, 2, 6, 7, 8, 24}

\* the frame with these readings, its rows in the given order
TrendFrame(readings, order) ==
    LET n == Len(readings)
        at(i) == CASE order = "ascending"  -> i
                   [] order = "descending" -> n + 1 - i
                   [] order = "rotated"    -> (i % n) + 1
    IN [i \in 1..n |-> [timestamp |-> at(i), rain_mm |-> readings[at(i)]]]

RECURSIVE InsertByTimestamp(_, _)
InsertByTimestamp(row, sorted) ==
    IF sorted = <<>> THEN <<row>>
    ELSE IF row.timestamp < Head(sorted).timestamp THEN <<row>> \o sorted
    ELSE <<Head(sorted)>> \o InsertByTimestamp(row, Tail(sorted))

RECURSIVE SortValuesTimestamp(_)
\* df.sort_values('timestamp')
SortValuesTimestamp(df) ==
    IF df = <<>> THEN <<>>
    ELSE InsertByTimestamp(Head(df), SortValuesTimestamp(Tail(df)))

\* df.tail(n) and df.head(n) for n >= 0
DfTail(df, n) == SubSeq(df, (IF Len(df) > n THEN Len(df) - n ELSE 0) + 1, Len(df))
DfHead(df, n) == SubSeq(df, 1, IF Len(df) > n THEN n ELSE Len(df))

RECURSIVE RainSum(_)
RainSum(df) == IF df = <<>> THEN 0 ELSE Head(df).rain_mm + RainSum(Tail(df))

\* df['rain_mm'].mean(), kept as the quotient num / den
RainMean(df) == [num |-> RainSum(df), den |-> Len(df)]

\* the integer nearest to n / d for d > 0, a tie going to the even one
RoundDiv(n, d) ==
    LET q == n \div d
        r == n % d
    IN IF 2 * r < d THEN q
       ELSE IF 2 * r > d THEN q + 1
       ELSE IF q % 2 = 0 THEN q ELSE q + 1

\* round(x, 2) of a quotient of thousandths: thousandths, a multiple of 10
Round2OfMean(x) == 10 * RoundDiv(x.num, 10 * x.den)

NoTrend == [call |-> "none", historical_data |-> <<>>, hours |-> 0,
            retained |-> <<>>, change_rate |-> [num |-> 0, den |-> 1],
            result |-> EmptyDict]

\* trend = "increasing" if change_rate >= 20
TrendOfInclusive(change_rate) ==
    IF change_rate.num >= TREND_RISING * change_rate.den THEN "increasing"
    ELSE IF change_rate.num <= TREND_FALLING * change_rate.den THEN "decreasing"
    ELSE "stable"

\* lines 202-207, for change_rate = num / den with den > 0
TrendOf(change_rate) ==
    IF change_rate.num > TREND_RISING * change_rate.den THEN "increasing"
    ELSE IF change_rate.num < TREND_FALLING * change_rate.den THEN "decreasing"
    ELSE "stable"

\* ForecastService.get_trend_analysis: the call with its locals df and
\* change_rate, and the dictionary returned.  change_rate is in percent,
\* the returned change_rate in hundredths of a percent.
GetTrendAnalysis(historical_data, hours) ==
    LET df == DfTail(SortValuesTimestamp(historical_data), hours)
        unknown == [trend |-> "unknown", change_rate |-> 0]
    IN IF Len(historical_data) < 2
       THEN [call |-> "get_trend_analysis", historical_data |-> historical_data,
             hours |-> hours, retained |-> <<>>,
             change_rate |-> [num |-> 0, den |-> 1], result |-> unknown]
       ELSE IF Len(df) < 2
       THEN [call |-> "get_trend_analysis", historical_data |-> historical_data,
             hours |-> hours, retained |-> df,
             change_rate |-> [num |-> 0, den |-> 1], result |-> unknown]
       ELSE LET recent_avg == RainMean(DfTail(df, TREND_RECENT))
                older_avg == IF Len(df) > TREND_RECENT
                             THEN RainMean(DfHead(df, Len(df) - TREND_RECENT))
                             ELSE [num |-> df[1].rain_mm, den |-> 1]
                \* ((recent_avg - older_avg) / (older_avg + 0.1)) * 100
                change_rate ==
                    [num |-> 100 * (recent_avg.num * older_avg.den
                                      - older_avg.num * recent_avg.den),
                     den |-> recent_avg.den
                               * (older_avg.num + TREND_OFFSET * older_avg.den)]
            IN [call |-> "get_trend_analysis",
                historical_data |-> historical_data, hours |-> hours,
                retained |-> df, change_rate |-> change_rate,
                result |-> [trend |-> TrendOf(change_rate),
                            change_rate |-> RoundDiv(100 * change_rate.num,
                                                     change_rate.den),
                            recent_average |-> Round2OfMean(recent_avg),
                            older_average |-> Round2OfMean(older_avg)]]

get_trend_analysis ==
    /\ \E readings \in TrendReadings, order \in TrendOrders, hours \in TrendHours :
         fs_trend' = GetTrendAnalysis(TrendFrame(readings, order), hours)
    /\ UNCHANGED <<fs, fs_call, fs_out, risk_out, fs_train>>
    /\ UNCHANGED <<aggVars, detVars, riskVars, ccVars, enVars>>

-----------------------------------------------------------------------------
(* fit and train_simple_forecast running while detect and forecast_rainfall  *)
(* run on the same instance.  Neither class holds a lock, so the attribute   *)
(* assignments and reads of the two calls interleave statement by statement. *)

-----------------------------------------------------------------------------
(* Enrichment: src/feature_engineering.py on a frame of one row.  A cell is  *)
(* <<>> when it is null (NaN), <<v>> when it holds the number v and <<1, 0>> *)
(* or <<-1, 0>> when it holds inf or -inf.  Arithmetic is exact.  The        *)
(* rainfall columns are in thousandths of a millimetre; drainage_score,      *)
(* slope_pct, elevation_m, temp_c and humidity_pct are in hundredths.  A     *)
(* derived column is in the unit its formula gives: rain_intensity in 1e-6,  *)
(* drainage_effectiveness in 1e-6, temp_humidity_interaction and             *)
(* elevation_risk in 1e-4, cumulative_risk in 1e-5, rain_trend and           *)
(* rain_spike in 1e-3; rain_variability holds six times the square of the    *)
(* standard deviation, in 1e-6.  A timestamp is the number of hours since    *)
(* the start of a year of 365 days.                                          *)

NaN == <<>>
Cell(v) == <<v>>
Inf == <<1, 0>>          \* np.inf
NegInf == <<-1, 0>>      \* -np.inf

\* the rainfall columns of the rows enrichment is given
EnrichRain ==
    {[rain_mm |-> Cell(2000), rain_sum_1h |-> Cell(2000), rain_sum_3h |-> Cell(5000),
      rain_sum_6h |-> Cell(5000), rain_sum_12h |-> Cell(8000),
      rain_sum_24h |-> Cell(12000), rain_max_3h |-> Cell(3000)],
     [rain_mm |-> Cell(0), rain_sum_1h |-> Cell(0), rain_sum_3h |-> Cell(0),
      rain_sum_6h |-> Cell(0), rain_sum_12h |-> Cell(0),
      rain_sum_24h |-> Cell(0), rain_max_3h |-> Cell(0)],
     [rain_mm |-> Cell(-1000), rain_sum_1h |-> Cell(-1000), rain_sum_3h |-> Cell(-300),
      rain_sum_6h |-> Cell(-1000), rain_sum_12h |-> Cell(-1000),
      rain_sum_24h |-> Cell(-1000), rain_max_3h |-> Cell(-1000)]}

\* the ward columns, each with a value or null
EnrichWard ==
    [drainage_score : {NaN, Cell(50)}, slope_pct : {NaN, Cell(200)},
     elevation_m : {NaN, Cell(3000)}, humidity_pct : {Cell(7000)},
     temp_c : {Cell(2900)}]

\* a row with a timestamp column (15 August, 14 h) and one without
EnrichTimes == {EmptyDict, [c \in {"timestamp"} |-> Cell(226 * 24 + 14)]}

\* the record or function f with the columns of g added or replaced
WithColumns(f, g) ==
    [c \in DOMAIN f \cup DOMAIN g |-> IF c \in DOMAIN g THEN g[c] ELSE f[c]]

EnrichRows ==
    {WithColumns(WithColumns(r, w), t) :
        r \in EnrichRain, w \in EnrichWard, t \in EnrichTimes}

NoEnrich == [call |-> "none", df |-> EmptyDict, include_lags |-> FALSE]

\* arithmetic of pandas columns: a null operand gives a null result
ColTimes(a, b) == IF a = NaN \/ b = NaN THEN NaN ELSE Cell(a[1] * b[1])
ColMinus(a, b) == IF a = NaN \/ b = NaN THEN NaN ELSE Cell(a[1] - b[1])
ColPlus(a, k)  == IF a = NaN THEN NaN ELSE Cell(a[1] + k)      \* column + k
ColFrom(k, a)  == IF a = NaN THEN NaN ELSE Cell(k - a[1])      \* k - column

\* a / b of two columns of numbers and nulls to 1e-3, `scale` bringing the
\* quotient to that unit; x / 0 is inf or -inf by the sign of x and 0 / 0
\* is NaN: pandas raises nothing
Quotient(a, b, scale) ==
    IF a = NaN \/ b = NaN THEN NaN
    ELSE IF b[1] = 0
    THEN IF a[1] > 0 THEN Inf ELSE IF a[1] < 0 THEN NegInf ELSE NaN
    ELSE Cell((scale * a[1]) \div b[1])

\* dt.month of day d of a year of 365 days
MonthOfDay(d) ==
    LET ends == <<31, 59, 90, 120, 151, 181, 212, 243, 273, 304, 334, 365>>
    IN CHOOSE m \in 1..12 : d <= ends[m] /\ (m = 1 \/ d > ends[m - 1])

\* add_temporal_features
AddTemporalFeatures(df) ==
    IF "timestamp" \in DOMAIN df
    THEN LET t == df["timestamp"][1]
             day == (t \div 24) + 1
             month == MonthOfDay(day)
         IN WithColumns(df, [hour |-> Cell(t % 24), day_of_year |-> Cell(day),
                             month |-> Cell(month),
                             is_monsoon |-> Cell(IF month \in 6..11 THEN 1 ELSE 0)])
    ELSE WithColumns(df, [hour |-> Cell(12), day_of_year |-> Cell(180),
                          month |-> Cell(7), is_monsoon |-> Cell(1)])

\* add_interaction_features
AddInteractionFeatures(df) ==
    WithColumns(df,
        [rain_intensity |-> ColTimes(df["rain_mm"], df["rain_sum_3h"]),
         \* 1 - slope_pct / 100, in 1e-4
         drainage_effectiveness |->
             ColTimes(df["drainage_score"], ColFrom(10000, df["slope_pct"])),
         temp_humidity_interaction |-> ColTimes(df["temp_c"], df["humidity_pct"]),
         \* 1 - drainage_score, in 1e-2
         cumulative_risk |->
             ColTimes(df["rain_sum_24h"], ColFrom(100, df["drainage_score"])),
         \* (100 - elevation_m) / 100, in 1e-4
         elevation_risk |-> ColFrom(10000, df["elevation_m"])])

\* add_statistical_features; the three rainfall sums are never null here
AddStatisticalFeatures(df) ==
    LET a == df["rain_sum_1h"][1]
        b == df["rain_sum_3h"][1]
        c == df["rain_sum_6h"][1]
    IN WithColumns(df,
        [rain_variability |->
             Cell(3 * (a * a + b * b + c * c) - (a + b + c) * (a + b + c)),
         rain_trend |->
             \* (rain_sum_3h - rain_sum_12h) / (rain_sum_12h + 1)
             Quotient(ColMinus(df["rain_sum_3h"], df["rain_sum_12h"]),
                      ColPlus(df["rain_sum_12h"], 1000), 1000),
         rain_spike |->
             \* rain_max_3h / (rain_sum_3h / 3 + 0.1), both terms times 3
             Quotient(df["rain_max_3h"], ColPlus(df["rain_sum_3h"], 300),
                      3000)])

\* add_lag_features on a frame of one row: shift(lag) is null and is filled
\* with rain_mm; without a timestamp rain_mm is taken at once
AddLagFeatures(df) ==
    WithColumns(df, [c \in {"rain_mm_lag_1h", "rain_mm_lag_3h", "rain_mm_lag_6h"}
                        |-> df["rain_mm"]])

\* df.fillna(0), every column of the frame
FillNa(df) == [c \in DOMAIN df |-> IF df[c] = NaN THEN Cell(0) ELSE df[c]]

\* the frame as it is, infinities kept
ReplaceInfNone(df) == df

\* df.replace([np.inf, -np.inf], 0), every column of the frame
ReplaceInf(df) ==
    [c \in DOMAIN df |-> IF df[c] \in {Inf, NegInf} THEN Cell(0) ELSE df[c]]

\* engineer_features, lines 127-148
EngineerFeatures(df, include_lags) ==
    LET temporal == AddTemporalFeatures(df)
        interaction == AddInteractionFeatures(temporal)
        statistical == AddStatisticalFeatures(interaction)
        lagged == IF include_lags THEN AddLagFeatures(statistical) ELSE statistical
    IN ReplaceInf(FillNa(lagged))

engineer_features ==
    /\ \E df \in EnrichRows, include_lags \in BOOLEAN :
         /\ en_row' = [call |-> "engineer_features", df |-> df,
                       include_lags |-> include_lags]
         /\ en_once' = EngineerFeatures(df, include_lags)
    /\ en_twice' = EmptyDict
    /\ UNCHANGED rt_call
    /\ UNCHANGED <<aggVars, detVars, fsVars, riskVars, ccVars>>

\* engineer_features on the frame the last call returned
engineer_again ==
    /\ en_row.call = "engineer_features"
    /\ en_twice' = EngineerFeatures(en_once, en_row.include_lags)
    /\ UNCHANGED <<en_row, en_once, rt_call>>
    /\ UNCHANGED <<aggVars, detVars, fsVars, riskVars, ccVars>>

-----------------------------------------------------------------------------
(* rain_trend, computed in three places.  The sums are cells in thousandths  *)
(* of a millimetre, null for a column without a value; the trend is kept as  *)
(* the two terms of its quotient, 0 / 0 standing for NaN.                    *)

\* the sums rain_trend is computed from
TrendSums3  == {Cell(v) : v \in {-1000, 0, 1, 300, 500, 1000, 2000, 5000, 8000, 9000}}
TrendSums12 == {NaN} \cup {Cell(v) : v \in {-2000, -1000, -300, 0, 1, 500,
                                             1000, 2000, 5000, 8000}}

NoRainTrend == [call |-> "none", rain_sum_3h |-> Cell(0), rain_sum_12h |-> Cell(0),
                scoring |-> [num |-> 0, den |-> 1],
                training |-> [num |-> 0, den |-> 1],
                unguarded |-> [num |-> 0, den |-> 1]]

\* (rain_sum_3h - rain_sum_12h) / rain_sum_12h
RainTrendNoOffset(rain_sum_3h, rain_sum_12h) ==
    IF rain_sum_12h = NaN THEN [num |-> 0, den |-> 0]
    ELSE [num |-> rain_sum_3h[1] - rain_sum_12h[1], den |-> rain_sum_12h[1]]

\* (rain_sum_3h - rain_sum_12h) / (rain_sum_12h + 1), as add_statistical_features
\* and the CSV path of train_anomaly_detector compute it on columns
RainTrendUnguarded(rain_sum_3h, rain_sum_12h) ==
    IF rain_sum_12h = NaN THEN [num |-> 0, den |-> 0]
    ELSE [num |-> rain_sum_3h[1] - rain_sum_12h[1],
          den |-> rain_sum_12h[1] + 1000]

\* main.py:314: ... if rain_sum_12h > 0 else 0; NaN > 0 is false
RainTrendScoring(rain_sum_3h, rain_sum_12h) ==
    IF rain_sum_12h # NaN /\ rain_sum_12h[1] > 0
    THEN [num |-> rain_sum_3h[1] - rain_sum_12h[1],
          den |-> rain_sum_12h[1] + 1000]
    ELSE [num |-> 0, den |-> 1]

\* anomaly_detector.py:196: ... if obs.rain_sum_12h else 0; None and 0.0
\* are false
RainTrendTraining(rain_sum_3h, rain_sum_12h) ==
    IF rain_sum_12h # NaN /\ rain_sum_12h[1] # 0
    THEN [num |-> rain_sum_3h[1] - rain_sum_12h[1],
          den |-> rain_sum_12h[1] + 1000]
    ELSE [num |-> 0, den |-> 1]

\* rain_trend of one row, by each of the three places
rain_trend ==
    /\ \E rain_sum_3h \in TrendSums3, rain_sum_12h \in TrendSums12 :
         rt_call' = [call |-> "rain_trend",
                     rain_sum_3h |-> rain_sum_3h, rain_sum_12h |-> rain_sum_12h,
                     scoring |-> RainTrendScoring(rain_sum_3h, rain_sum_12h),
                     training |-> RainTrendTraining(rain_sum_3h, rain_sum_12h),
                     unguarded |-> RainTrendUnguarded(rain_sum_3h, rain_sum_12h)]
    /\ UNCHANGED <<en_row, en_once, en_twice>>
    /\ UNCHANGED <<aggVars, detVars, fsVars, riskVars, ccVars>>

IdleFit        == [pc |-> "idle", k |-> 0]
IdleDetect     == [pc |-> "idle", scaler |-> 0]
NoDetectRead   == [done |-> FALSE, is_fitted |-> FALSE, scaler |-> 0, model |-> 0]
IdleTrain      == [pc |-> "idle", m |-> NoModel]
IdleForecast   == [pc |-> "idle", scaler |-> "unfitted"]
NoForecastRead == [done |-> FALSE, is_trained |-> FALSE, scaler |-> "unfitted",
                   model |-> "None"]

MaxRefits == 2          \* training sets of the fits that run beside a detect

\* the regressions of the trainings that run beside a forecast
RetrainModels == {m \in FittedModels : m.name \in {"carry", "decay"}}

\* self.rainfall_model = LinearRegression(): a regression not yet fitted
UnfittedModel == [NoModel EXCEPT !.name = "unfitted"]

\* fit, line 55: self.scaler.fit_transform refits the scaler in place
FitScaler ==
    /\ fit_pc.pc = "idle"
    /\ \E k \in 1..MaxRefits :
         /\ det' = [det EXCEPT !.scaler = k]
         /\ fit_pc' = [pc |-> "scaled", k |-> k]
    /\ UNCHANGED <<det_out, det_file, det_spike, det_train>>
    /\ UNCHANGED <<det_pc, det_read, train_pc, fc_pc, fc_read>>
    /\ UNCHANGED <<aggVars, fsVars, riskVars, enVars>>

\* fit, line 58: self.model.fit refits the forest in place
FitModel ==
    /\ fit_pc.pc = "scaled"
    /\ det' = [det EXCEPT !.model = fit_pc.k]
    /\ fit_pc' = [fit_pc EXCEPT !.pc = "fitted"]
    /\ UNCHANGED <<det_out, det_file, det_spike, det_train>>
    /\ UNCHANGED <<det_pc, det_read, train_pc, fc_pc, fc_read>>
    /\ UNCHANGED <<aggVars, fsVars, riskVars, enVars>>

\* fit, line 59: self.is_fitted = True
FitFlag ==
    /\ fit_pc.pc = "fitted"
    /\ det' = [det EXCEPT !.is_fitted = TRUE]
    /\ fit_pc' = IdleFit
    /\ UNCHANGED <<det_out, det_file, det_spike, det_train>>
    /\ UNCHANGED <<det_pc, det_read, train_pc, fc_pc, fc_read>>
    /\ UNCHANGED <<aggVars, fsVars, riskVars, enVars>>

\* detect, line 73: the is_fitted test; the neutral verdict is returned
\* without a look at the scaler or the model
DetectCheck ==
    /\ det_pc.pc = "idle"
    /\ IF det.is_fitted
       THEN /\ det_pc' = [det_pc EXCEPT !.pc = "checked"]
            /\ UNCHANGED det_read
       ELSE /\ det_read' = [done |-> TRUE, is_fitted |-> FALSE,
                            scaler |-> 0, model |-> 0]
            /\ UNCHANGED det_pc
    /\ UNCHANGED <<det, det_out, det_file, det_spike, det_train>>
    /\ UNCHANGED <<fit_pc, train_pc, fc_pc, fc_read>>
    /\ UNCHANGED <<aggVars, fsVars, riskVars, enVars>>

\* detect, line 91: self.scaler.transform(features)
DetectScale ==
    /\ det_pc.pc = "checked"
    /\ det_pc' = [pc |-> "scaled", scaler |-> det.scaler]
    /\ UNCHANGED <<det, det_out, det_file, det_spike, det_train>>
    /\ UNCHANGED <<fit_pc, det_read, train_pc, fc_pc, fc_read>>
    /\ UNCHANGED <<aggVars, fsVars, riskVars, enVars>>

\* detect, lines 94-95: self.model.score_samples and self.model.predict
DetectScore ==
    /\ det_pc.pc = "scaled"
    /\ det_read' = [done |-> TRUE, is_fitted |-> TRUE,
                    scaler |-> det_pc.scaler, model |-> det.model]
    /\ det_pc' = IdleDetect
    /\ UNCHANGED <<det, det_out, det_file, det_spike, det_train>>
    /\ UNCHANGED <<fit_pc, train_pc, fc_pc, fc_read>>
    /\ UNCHANGED <<aggVars, fsVars, riskVars, enVars>>

\* train_simple_forecast, line 48, on a frame of 24 rows or more:
\* self.scaler.fit_transform refits the scaler in place
TrainScaler ==
    /\ train_pc.pc = "idle"
    /\ \E m \in RetrainModels :
         /\ fs' = [fs EXCEPT !.scaler = m.name]
         /\ train_pc' = [pc |-> "scaled", m |-> m]
    /\ UNCHANGED <<fs_call, fs_out, risk_out, fs_train, fs_trend>>
    /\ UNCHANGED <<fit_pc, det_pc, det_read, fc_pc, fc_read>>
    /\ UNCHANGED <<aggVars, detVars, riskVars, enVars>>

\* line 51: self.rainfall_model = LinearRegression()
TrainReplace ==
    /\ train_pc.pc = "scaled"
    /\ fs' = [fs EXCEPT !.rainfall_model = UnfittedModel]
    /\ train_pc' = [train_pc EXCEPT !.pc = "replaced"]
    /\ UNCHANGED <<fs_call, fs_out, risk_out, fs_train, fs_trend>>
    /\ UNCHANGED <<fit_pc, det_pc, det_read, fc_pc, fc_read>>
    /\ UNCHANGED <<aggVars, detVars, riskVars, enVars>>

\* line 52: self.rainfall_model.fit(X_scaled, y)
TrainFit ==
    /\ train_pc.pc = "replaced"
    /\ fs' = [fs EXCEPT !.rainfall_model = train_pc.m]
    /\ train_pc' = [train_pc EXCEPT !.pc = "fitted"]
    /\ UNCHANGED <<fs_call, fs_out, risk_out, fs_train, fs_trend>>
    /\ UNCHANGED <<fit_pc, det_pc, det_read, fc_pc, fc_read>>
    /\ UNCHANGED <<aggVars, detVars, riskVars, enVars>>

\* line 53: self.is_trained = True
TrainFlag ==
    /\ train_pc.pc = "fitted"
    /\ fs' = [fs EXCEPT !.is_trained = TRUE]
    /\ train_pc' = IdleTrain
    /\ UNCHANGED <<fs_call, fs_out, risk_out, fs_train, fs_trend>>
    /\ UNCHANGED <<fit_pc, det_pc, det_read, fc_pc, fc_read>>
    /\ UNCHANGED <<aggVars, detVars, riskVars, enVars>>

\* fit, line 55, raising: StandardScaler.fit resets the scaler and then
\* validates the frame, so a frame it rejects (no rows, an infinite value)
\* leaves the scaler unfitted; lines 58-59 do not run
FitScalerRaise ==
    /\ fit_pc.pc = "idle"
    /\ det' = [det EXCEPT !.scaler = 0]
    /\ UNCHANGED <<det_out, det_file, det_spike, det_train>>
    /\ UNCHANGED <<fit_pc, det_pc, det_read, train_pc, fc_pc, fc_read>>
    /\ UNCHANGED <<aggVars, fsVars, riskVars, enVars>>

\* train_simple_forecast, line 48, raising on a frame of 24 rows or more
\* with an infinite rain_mm: the scaler is reset and left unfitted
TrainScalerRaise ==
    /\ train_pc.pc = "idle"
    /\ fs' = [fs EXCEPT !.scaler = "unfitted"]
    /\ UNCHANGED <<fs_call, fs_out, risk_out, fs_train, fs_trend>>
    /\ UNCHANGED <<fit_pc, det_pc, det_read, train_pc, fc_pc, fc_read>>
    /\ UNCHANGED <<aggVars, detVars, riskVars, enVars>>

\* line 52 raising on a null rain_mm in y, which the scaler of line 48
\* accepted: the regression of line 51 stays in place, not fitted
TrainFitRaise ==
    /\ train_pc.pc = "replaced"
    /\ train_pc' = IdleTrain
    /\ UNCHANGED <<fs, fs_call, fs_out, risk_out, fs_train, fs_trend>>
    /\ UNCHANGED <<fit_pc, det_pc, det_read, fc_pc, fc_read>>
    /\ UNCHANGED <<aggVars, detVars, riskVars, enVars>>

\* forecast_rainfall, line 68: the is_trained test; the persistence forecast
\* uses neither the scaler nor the model
ForecastCheck ==
    /\ fc_pc.pc = "idle"
    /\ IF fs.is_trained
       THEN /\ fc_pc' = [fc_pc EXCEPT !.pc = "checked"]
            /\ UNCHANGED fc_read
       ELSE /\ fc_read' = [done |-> TRUE, is_trained |-> FALSE,
                           scaler |-> "unfitted", model |-> "None"]
            /\ UNCHANGED fc_pc
    /\ UNCHANGED <<fs, fs_call, fs_out, risk_out, fs_train, fs_trend>>
    /\ UNCHANGED <<fit_pc, det_pc, det_read, train_pc>>
    /\ UNCHANGED <<aggVars, detVars, riskVars, enVars>>

\* line 100: features_scaled = self.scaler.transform(features)
ForecastScale ==
    /\ fc_pc.pc = "checked"
    /\ fc_pc' = [pc |-> "scaled", scaler |-> fs.scaler]
    /\ UNCHANGED <<fs, fs_call, fs_out, risk_out, fs_train, fs_trend>>
    /\ UNCHANGED <<fit_pc, det_pc, det_read, train_pc, fc_read>>
    /\ UNCHANGED <<aggVars, detVars, riskVars, enVars>>

\* line 101: self.rainfall_model.predict(features_scaled)
ForecastPredict ==
    /\ fc_pc.pc = "scaled"
    /\ fc_read' = [done |-> TRUE, is_trained |-> TRUE,
                   scaler |-> fc_pc.scaler, model |-> fs.rainfall_model.name]
    /\ fc_pc' = IdleForecast
    /\ UNCHANGED <<fs, fs_call, fs_out, risk_out, fs_train, fs_trend>>
    /\ UNCHANGED <<fit_pc, det_pc, det_read, train_pc>>
    /\ UNCHANGED <<aggVars, detVars, riskVars, enVars>>

-----------------------------------------------------------------------------
(* Window Aggregator: data_collector.py 41-68 and its copy main.py 231-256. *)

\* The readings WeatherService.get_current_weather can return: an API
\* reading (negative values are accepted as they are) or the fallback after
\* a request error, which carries rain_mm = 0.0 as the mock reading of a
\* service without API key does.  Only rain_mm and source matter here.
WeatherRain == {-1000, 2000}
WeatherReadings ==
    {[rain_mm |-> r, source |-> "api"] : r \in WeatherRain}
        \cup {[rain_mm |-> 0, source |-> "error_fallback"]}

\* The instants the wall clock is read at: the start, one second later, and
\* one second after each window's length, so that a row stored at 0 or 1 is
\* seen at exactly w + 1 and exactly w seconds of age for every window w.
Instants ==
    {0, 1} \cup {w + 1 : w \in {WINDOW_1H, WINDOW_3H, WINDOW_6H,
                                 WINDOW_12H, WINDOW_24H}}

CHENNAI == <<CHENNAI_LAT, CHENNAI_LON>>
\* lat/lon arguments of predict_realtime: the default and some other place
Locations == {CHENNAI, <<CHENNAI_LAT + 1, CHENNAI_LON>>}

RECURSIVE OrderByTimestampDesc(_)
\* .order_by(RainfallObservation.timestamp.desc()); equal timestamps by id
OrderByTimestampDesc(s) ==
    IF s = <<>> THEN <<>>
    ELSE LET i == CHOOSE k \in 1..Len(s) :
                    \A j \in 1..Len(s) :
                        \/ s[k].timestamp > s[j].timestamp
                        \/ s[k].timestamp = s[j].timestamp /\ s[k].id <= s[j].id
             rest == [j \in 1..(Len(s) - 1) |-> IF j < i THEN s[j] ELSE s[j + 1]]
         IN <<s[i]>> \o OrderByTimestampDesc(rest)

RECURSIVE FilterRows(_, _, _)
\* .filter(timestamp >= now - timedelta(hours=24), lat == lat, lon == lon)
FilterRows(table, now, loc) ==
    IF table = <<>> THEN <<>>
    ELSE IF /\ Head(table).timestamp >= now - WINDOW_24H
            /\ Head(table).lat = loc[1]
            /\ Head(table).lon = loc[2]
         THEN <<Head(table)>> \o FilterRows(Tail(table), now, loc)
         ELSE FilterRows(Tail(table), now, loc)

\* recent_obs = db.query(RainfallObservation).filter(...).order_by(...).all()
RecentObs(table, now, loc) == OrderByTimestampDesc(FilterRows(table, now, loc))

\* sum(rain_values_w) + weather["rain_mm"] without the current reading
RollingSumNoCurrent(values, r) == PySum(values)

\* rain_sum_w = sum(rain_values_w) + weather["rain_mm"]
RollingSum(values, r) == PySum(values) + r

\* max(rain_values_w, default=0): the current reading left out
RollingMaxNoCurrent(values, r) == PyMax(RainOf(values), 0)

\* rain_max_w = max(rain_values_w + [weather["rain_mm"]], default=0)
RollingMax(values, r) == PyMax(RainOf(values) \o <<r>>, 0)

\* The locals computed from recent_obs.  rain_values_* hold the selected
\* rows rather than only their rain_mm, so that the rows that contribute to
\* a window stay visible.
RollingWindows(recent_obs, now, r) ==
    LET v1  == SelectObs(recent_obs, now, WINDOW_1H)
        v3  == SelectObs(recent_obs, now, WINDOW_3H)
        v6  == SelectObs(recent_obs, now, WINDOW_6H)
        v12 == SelectObs(recent_obs, now, WINDOW_12H)
        v24 == recent_obs
    IN [rain_values_1h  |-> v1,  rain_values_3h  |-> v3, rain_values_6h |-> v6,
        rain_values_12h |-> v12, rain_values_24h |-> v24,
        rain_sum_1h  |-> RollingSum(v1, r),
        rain_sum_3h  |-> RollingSum(v3, r),
        rain_sum_6h  |-> RollingSum(v6, r),
        rain_sum_12h |-> RollingSum(v12, r),
        rain_sum_24h |-> RollingSum(v24, r),
        rain_max_3h  |-> RollingMax(v3, r),
        rain_max_6h  |-> RollingMax(v6, r)]

NoWeather == [rain_mm |-> 0, source |-> "none"]
NoWindows == RollingWindows(<<>>, 0, 0)

\* RainfallObservation(timestamp=datetime.now(), lat=lat, lon=lon,
\*                     rain_mm=weather["rain_mm"], rain_sum_1h=..., source="api")
Observation(id, ts, loc, r, win) ==
    [id |-> id, timestamp |-> ts, lat |-> loc[1], lon |-> loc[2],
     rain_mm |-> r,
     rain_sum_1h  |-> win.rain_sum_1h,  rain_sum_3h  |-> win.rain_sum_3h,
     rain_sum_6h  |-> win.rain_sum_6h,  rain_sum_12h |-> win.rain_sum_12h,
     rain_sum_24h |-> win.rain_sum_24h,
     rain_max_3h  |-> win.rain_max_3h,  rain_max_6h  |-> win.rain_max_6h,
     source |-> "api"]

\* Time passes between any two steps of the handlers.
Tick ==
    /\ \E t \in Instants : t > clock /\ clock' = t
    /\ UNCHANGED <<db, model_loaded, c_pc, c_now, c_fault, c_propagated,
                   c_session, dc, dc_call>>
    /\ UNCHANGED <<p_pc, p_loc, p_weather, p_now, p_seen, p_windows>>
    /\ UNCHANGED <<detVars, fsVars, riskVars, ccVars, enVars>>

\* The step of a collection cycle that raises, if one does: the fetch
\* (line 35; get_current_weather turns a RequestException into the fallback
\* reading, any other exception leaves it), the commit (line 90), or the
\* report printed after the commit (lines 92-93).
CollectFaults == {"none", "fetch", "commit", "report"}

\* a cycle with this reading and this fault adds no row to the table
StoresNothing(weather, fault) ==
    weather.source = "error_fallback" \/ fault \in {"fetch", "commit"}

\* The cycles that differ: the reading does not matter when the fetch
\* raises, no later step runs on the fallback reading, and the handler's
\* print matters only after the report's.
Cycles ==
    {c \in [weather : WeatherReadings, fault : CollectFaults,
            print_fails : BOOLEAN] :
        /\ c.fault = "fetch" => c.weather.source = "error_fallback"
        /\ c.weather.source = "error_fallback" => c.fault \in {"none", "fetch"}
        /\ c.print_fails => c.fault = "report"}

\* DataCollector.collect_weather_data, lines 27-99, on the table as it is
\* at `now`: fetch the reading and give up on the fallback reading;
\* otherwise read the clock (now, line 42), query, aggregate and store the
\* new row with a second reading of the clock (t, line 72), which may be
\* later than the first.  An exception sends the call to the handler of
\* lines 95-97, which rolls back what is not committed and prints; its
\* print goes to the stream of lines 92-93 and raises as that one did when
\* print_fails.  The session is closed at line 99 on every path.
CollectWeatherData(table, now, t, weather, fault, print_fails) ==
    LET recent_obs == RecentObs(table, now, CHENNAI)
        win == RollingWindows(recent_obs, now, weather.rain_mm)
        observation == Observation(Len(table) + 1, t, CHENNAI,
                                   weather.rain_mm, win)
    IN IF fault = "fetch"
       THEN [pc |-> "failed", fault |-> "fetch", db |-> table, clock |-> now,
             propagated |-> FALSE, session |-> "closed"]
       ELSE IF weather.source = "error_fallback"
       THEN [pc |-> "skipped", fault |-> "none", db |-> table, clock |-> now,
             propagated |-> FALSE, session |-> "closed"]
       ELSE IF fault = "commit"
       THEN [pc |-> "failed", fault |-> "commit", db |-> table, clock |-> now,
             propagated |-> FALSE, session |-> "closed"]
       ELSE [pc |-> "stored", fault |-> fault,
             db |-> Append(table, observation), clock |-> t,
             propagated |-> (fault = "report" /\ print_fails),
             session |-> "closed"]

\* one call of collect_weather_data, by whoever calls it
CollectCycle(c, t) ==
    \E ret \in {CollectWeatherData(db, clock, t, c.weather, c.fault,
                                   c.print_fails)} :
       /\ db' = ret.db
       /\ clock' = ret.clock
       /\ c_pc' = ret.pc
       /\ c_now' = IF ret.pc = "stored" THEN clock ELSE c_now
       /\ c_fault' = ret.fault
       /\ c_propagated' = ret.propagated
       /\ c_session' = ret.session

\* collect_weather_data as the scheduler's job runs it, in the cycles in
\* which no step raises (those in which one does are followed through
\* start and collect_now); the clock may move during the call
collect_weather_data ==
    /\ Len(db) < MaxObs
    /\ \E c \in {x \in Cycles : x.fault = "none"} :
        \E t \in IF StoresNothing(c.weather, c.fault) THEN {clock} ELSE Instants :
            /\ t >= clock
            /\ CollectCycle(c, t)
    /\ UNCHANGED <<model_loaded, dc, dc_call>>
    /\ UNCHANGED <<p_pc, p_loc, p_weather, p_now, p_seen, p_windows>>
    /\ UNCHANGED <<detVars, fsVars, riskVars, ccVars, enVars>>

COLLECTION_INTERVAL_MINUTES == 30      \* config.py:23

\* the interval_minutes start is called with: 0 for None, or 5
Intervals == {0, 5}

\* DataCollector.__init__: a scheduler that was never started, no job
NewDataCollector == [is_running |-> FALSE, scheduler |-> "new", jobs |-> <<>>]

NoCollectorCall == [op |-> "none", before |-> NewDataCollector,
                    raised |-> FALSE, collected |-> FALSE]

\* scheduler.add_job(..., id=id, replace_existing=True): a job of that id
\* takes the place of the one the store holds
AddJob(jobs, id, minutes) ==
    SelectSeq(jobs, LAMBDA j : j.id # id) \o <<[id |-> id, minutes |-> minutes]>>

\* start without the test of lines 103-105: add_job replaces the job and
\* scheduler.start() raises SchedulerAlreadyRunningError on a scheduler that
\* runs
StartUnguarded(d, interval_minutes) ==
    LET interval == IF interval_minutes # 0 THEN interval_minutes
                    ELSE COLLECTION_INTERVAL_MINUTES
    IN IF d.scheduler = "running"
       THEN [dc |-> [d EXCEPT !.jobs = AddJob(d.jobs, "weather_collection", interval)],
             raised |-> TRUE, collected |-> FALSE]
       ELSE [dc |-> [is_running |-> TRUE, scheduler |-> "running",
                     jobs |-> AddJob(d.jobs, "weather_collection", interval)],
             raised |-> FALSE, collected |-> TRUE]

\* DataCollector.start, lines 101-122, on collector d: the collector after
\* the call, and whether the call goes on to the first collection of lines
\* 124-127
Start(d, interval_minutes) ==
    LET interval == IF interval_minutes # 0 THEN interval_minutes
                    ELSE COLLECTION_INTERVAL_MINUTES
    IN IF d.is_running
       THEN [dc |-> d, raised |-> FALSE, collected |-> FALSE]
       ELSE [dc |-> [is_running |-> TRUE, scheduler |-> "running",
                     jobs |-> AddJob(d.jobs, "weather_collection", interval)],
             raised |-> FALSE, collected |-> TRUE]

\* DataCollector.stop, lines 129-136: scheduler.shutdown() stops the
\* scheduler and its memory job store drops its jobs
Stop(d) ==
    IF ~d.is_running
    THEN d
    ELSE [is_running |-> FALSE, scheduler |-> "shut_down", jobs |-> <<>>]

\* DataCollector.start; the exception a first collection lets out is caught
\* at lines 126-127.  The collection is one in which the clock does not
\* move; once the table holds MaxObs rows the cycles are those that store
\* nothing.
start ==
    /\ \E interval_minutes \in Intervals, c \in Cycles :
        LET ret == Start(dc, interval_minutes)
        IN /\ dc' = ret.dc
           /\ dc_call' = [op |-> "start", before |-> dc, raised |-> ret.raised,
                          collected |-> ret.collected]
           /\ IF ret.collected
              THEN /\ Len(db) < MaxObs \/ StoresNothing(c.weather, c.fault)
                   /\ CollectCycle(c, clock)
              ELSE UNCHANGED <<clock, db, c_pc, c_now, c_fault, c_propagated,
                               c_session>>
    /\ UNCHANGED <<model_loaded, p_pc, p_loc, p_weather, p_now, p_seen, p_windows>>
    /\ UNCHANGED <<detVars, fsVars, riskVars, ccVars, enVars>>

\* DataCollector.stop
stop ==
    /\ dc' = Stop(dc)
    /\ dc_call' = [op |-> "stop", before |-> dc, raised |-> FALSE,
                   collected |-> FALSE]
    /\ UNCHANGED <<clock, db, model_loaded, c_pc, c_now, c_fault, c_propagated,
                   c_session>>
    /\ UNCHANGED <<p_pc, p_loc, p_weather, p_now, p_seen, p_windows>>
    /\ UNCHANGED <<detVars, fsVars, riskVars, ccVars, enVars>>

\* DataCollector.collect_now, lines 138-140: one collection, in which the
\* clock does not move and whose exception is the caller's
collect_now ==
    /\ \E c \in Cycles :
        /\ Len(db) < MaxObs \/ StoresNothing(c.weather, c.fault)
        /\ CollectCycle(c, clock)
        /\ dc_call' = [op |-> "collect_now", before |-> dc,
                       raised |-> c_propagated',
                       collected |-> TRUE]
    /\ UNCHANGED <<model_loaded, dc>>
    /\ UNCHANGED <<p_pc, p_loc, p_weather, p_now, p_seen, p_windows>>
    /\ UNCHANGED <<detVars, fsVars, riskVars, ccVars, enVars>>

\* predict_realtime, lines 224-232: 503 without a model, otherwise fetch the
\* reading (a fallback reading is used like any other) and read the clock.
\* The handler writes nothing that a later call reads, so one call is
\* followed through each behaviour.
PredictBegin ==
    /\ p_pc = "idle"
    /\ \E loc \in Locations, weather \in WeatherReadings :
        IF ~model_loaded
        THEN /\ p_pc' = "unavailable"
             /\ UNCHANGED <<p_loc, p_weather, p_now>>
        ELSE /\ p_pc' = "fetched"
             /\ p_loc' = loc
             /\ p_weather' = weather
             /\ p_now' = clock
    /\ UNCHANGED <<clock, db, model_loaded, c_pc, c_now, p_seen, p_windows>>
    /\ UNCHANGED <<c_fault, c_propagated, c_session, dc, dc_call>>
    /\ UNCHANGED <<detVars, fsVars, riskVars, ccVars, enVars>>

\* predict_realtime, lines 233-256: query and aggregate.  The scheduler's
\* collector thread may have committed a row since line 232.
PredictFinish ==
    /\ p_pc = "fetched"
    /\ p_windows' = RollingWindows(RecentObs(db, p_now, p_loc), p_now,
                                   p_weather.rain_mm)
    /\ p_seen' = Len(db)
    /\ p_pc' = "done"
    /\ UNCHANGED <<clock, db, model_loaded, c_pc, c_now, p_loc, p_weather, p_now>>
    /\ UNCHANGED <<c_fault, c_propagated, c_session, dc, dc_call>>
    /\ UNCHANGED <<detVars, fsVars, riskVars, ccVars, enVars>>

InitAgg ==
    /\ clock = 0
    /\ db = <<>>
    /\ model_loaded \in BOOLEAN
    /\ c_pc = "idle" /\ c_now = 0
    /\ c_fault = "none" /\ c_propagated = FALSE /\ c_session = "none"
    /\ dc = NewDataCollector /\ dc_call = NoCollectorCall
    /\ p_pc = "idle" /\ p_loc = CHENNAI /\ p_weather = NoWeather /\ p_now = 0
    /\ p_seen = 0 /\ p_windows = NoWindows
    /\ det = NewDetector /\ det_out = NoDetect
    /\ fs = NewForecastService /\ fs_call = NoForecastCall
    /\ fs_out = <<>> /\ risk_out = NoRisk
    /\ det_file = NoFile
    /\ det_spike = NoSpike
    /\ det_train = NoDetTrain
    /\ fs_train = NoTrain
    /\ fs_trend = NoTrend
    /\ fit_pc = IdleFit
    /\ det_pc = IdleDetect
    /\ det_read = NoDetectRead
    /\ train_pc = IdleTrain
    /\ fc_pc = IdleForecast
    /\ fc_read = NoForecastRead
    /\ en_row = NoEnrich
    /\ en_once = EmptyDict
    /\ en_twice = EmptyDict
    /\ rt_call = NoRainTrend
    /\ risk_calls = <<>>

NextAgg == Tick \/ collect_weather_data \/ PredictBegin \/ PredictFinish

SpecAgg == InitAgg /\ [][NextAgg]_vars

-----------------------------------------------------------------------------
(* Properties of the Window Aggregator. *)

\* The rows among the first n of the table that are at loc and whose age at
\* now is at most w seconds.
Qualifying(table, n, loc, now, w) ==
    {i \in 1..n : /\ table[i].lat = loc[1]
                  /\ table[i].lon = loc[2]
                  /\ now - table[i].timestamp <= w}

RECURSIVE TotalRain(_, _)
TotalRain(table, rows) ==
    IF rows = {} THEN 0
    ELSE LET i == CHOOSE k \in rows : TRUE
         IN table[i].rain_mm + TotalRain(table, rows \ {i})

SumsAsSpecified(x, r, table, n, loc, now) ==
    /\ x.rain_sum_1h  = r + TotalRain(table, Qualifying(table, n, loc, now, WINDOW_1H))
    /\ x.rain_sum_3h  = r + TotalRain(table, Qualifying(table, n, loc, now, WINDOW_3H))
    /\ x.rain_sum_6h  = r + TotalRain(table, Qualifying(table, n, loc, now, WINDOW_6H))
    /\ x.rain_sum_12h = r + TotalRain(table, Qualifying(table, n, loc, now, WINDOW_12H))
    /\ x.rain_sum_24h = r + TotalRain(table, Qualifying(table, n, loc, now, WINDOW_24H))
    /\ Qualifying(table, n, loc, now, WINDOW_24H) = {} =>
          /\ x.rain_sum_1h = r /\ x.rain_sum_3h = r /\ x.rain_sum_6h = r
          /\ x.rain_sum_12h = r /\ x.rain_sum_24h = r

\* C1: every window sum computed by predict_realtime, and every window sum
\* of the row collect_weather_data stored last, is the current reading plus
\* the rain of exactly the rows aged at most the window's length in seconds;
\* with no such row it is the current reading.
C1_WindowSums ==
    /\ p_pc = "done" =>
          SumsAsSpecified(p_windows, p_weather.rain_mm, db, p_seen, p_loc, p_now)
    /\ Len(db) >= 1 =>
          SumsAsSpecified(db[Len(db)], db[Len(db)].rain_mm, db, Len(db) - 1,
                          CHENNAI, c_now)

\* A call that saw one row aged exactly 3 h and one aged 3 h and a second.
C1_Witness ==
    /\ p_pc = "done"
    /\ p_loc = CHENNAI
    /\ \E i, j \in 1..p_seen :
          /\ p_now - db[i].timestamp = WINDOW_3H
          /\ p_now - db[j].timestamp = WINDOW_3H + 1
          /\ db[i].rain_mm > 0 /\ db[j].rain_mm > 0

Chain(x, r) ==
    /\ r <= x.rain_sum_1h
    /\ x.rain_sum_1h  <= x.rain_sum_3h
    /\ x.rain_sum_3h  <= x.rain_sum_6h
    /\ x.rain_sum_6h  <= x.rain_sum_12h
    /\ x.rain_sum_12h <= x.rain_sum_24h

\* C2: with a non-negative current reading and non-negative rain in every
\* row, r <= sum_1h <= sum_3h <= sum_6h <= sum_12h <= sum_24h holds of what
\* predict_realtime computed and of every stored row.
C2_MonotonicWindows ==
    /\ ( /\ p_pc = "done"
         /\ p_weather.rain_mm >= 0
         /\ \A i \in 1..p_seen : db[i].rain_mm >= 0 )
          => Chain(p_windows, p_weather.rain_mm)
    /\ \A k \in 1..Len(db) :
          (\A i \in 1..k : db[i].rain_mm >= 0) => Chain(db[k], db[k].rain_mm)

\* Non-negative rain throughout, with sums that really grow with the window,
\* in the handler's result and in a stored row.
C2_Witness ==
    /\ p_pc = "done"
    /\ p_weather.rain_mm >= 0
    /\ p_seen >= 2
    /\ \A i \in 1..Len(db) : db[i].rain_mm >= 0
    /\ p_windows.rain_sum_1h < p_windows.rain_sum_3h
    /\ p_windows.rain_sum_3h < p_windows.rain_sum_24h
    /\ \E k \in 1..Len(db) : db[k].rain_sum_1h < db[k].rain_sum_24h

IsMaxOf(m, S) == m \in S /\ \A x \in S : x <= m

MaxAsSpecified(x, r, table, n, loc, now) ==
    /\ IsMaxOf(x.rain_max_3h,
               {r} \cup {table[i].rain_mm : i \in Qualifying(table, n, loc, now, WINDOW_3H)})
    /\ IsMaxOf(x.rain_max_6h,
               {r} \cup {table[i].rain_mm : i \in Qualifying(table, n, loc, now, WINDOW_6H)})
    /\ Qualifying(table, n, loc, now, WINDOW_3H) = {} => x.rain_max_3h = r
    /\ Qualifying(table, n, loc, now, WINDOW_6H) = {} => x.rain_max_6h = r

\* C3: rain_max_3h (rain_max_6h) is the greatest of the current reading and
\* the rain of the rows aged at most 3 h (6 h); with no such row it is the
\* current reading.
C3_WindowMaxima ==
    /\ p_pc = "done" =>
          MaxAsSpecified(p_windows, p_weather.rain_mm, db, p_seen, p_loc, p_now)
    /\ Len(db) >= 1 =>
          MaxAsSpecified(db[Len(db)], db[Len(db)].rain_mm, db, Len(db) - 1,
                         CHENNAI, c_now)

\* No row within 3 h, a wetter row within 6 h, and a current reading that
\* is not the default 0 of max().
C3_Witness ==
    /\ p_pc = "done"
    /\ p_weather.rain_mm # 0
    /\ Qualifying(db, p_seen, p_loc, p_now, WINDOW_3H) = {}
    /\ \E i \in Qualifying(db, p_seen, p_loc, p_now, WINDOW_6H) :
          db[i].rain_mm > p_weather.rain_mm

InWindow(values, now, w) ==
    \A i \in 1..Len(values) :
        0 <= now - values[i].timestamp /\ now - values[i].timestamp <= w

\* C4: every row that contributes to a window of predict_realtime has its
\* timestamp in [now - w, now]; a row stamped after now contributes to none.
C4_RightClosed ==
    p_pc = "done" =>
        /\ InWindow(p_windows.rain_values_1h,  p_now, WINDOW_1H)
        /\ InWindow(p_windows.rain_values_3h,  p_now, WINDOW_3H)
        /\ InWindow(p_windows.rain_values_6h,  p_now, WINDOW_6H)
        /\ InWindow(p_windows.rain_values_12h, p_now, WINDOW_12H)
        /\ InWindow(p_windows.rain_values_24h, p_now, WINDOW_24H)

-----------------------------------------------------------------------------
(* The services on their own. *)

InitIdle ==
    /\ clock = 0
    /\ db = <<>>
    /\ model_loaded = FALSE
    /\ c_pc = "idle" /\ c_now = 0
    /\ c_fault = "none" /\ c_propagated = FALSE /\ c_session = "none"
    /\ dc = NewDataCollector /\ dc_call = NoCollectorCall
    /\ p_pc = "idle" /\ p_loc = CHENNAI /\ p_weather = NoWeather /\ p_now = 0
    /\ p_seen = 0 /\ p_windows = NoWindows
    /\ det = NewDetector /\ det_out = NoDetect
    /\ fs = NewForecastService /\ fs_call = NoForecastCall
    /\ fs_out = <<>> /\ risk_out = NoRisk
    /\ det_file = NoFile
    /\ det_spike = NoSpike
    /\ det_train = NoDetTrain
    /\ fs_train = NoTrain
    /\ fs_trend = NoTrend
    /\ fit_pc = IdleFit
    /\ det_pc = IdleDetect
    /\ det_read = NoDetectRead
    /\ train_pc = IdleTrain
    /\ fc_pc = IdleForecast
    /\ fc_read = NoForecastRead
    /\ en_row = NoEnrich
    /\ en_once = EmptyDict
    /\ en_twice = EmptyDict
    /\ rt_call = NoRainTrend
    /\ risk_calls = <<>>

NextRisk == ClassifyRisk
SpecRisk == InitIdle /\ [][NextRisk]_vars

NextDetector == fit \/ detect \/ save \/ load
SpecDetector == InitIdle /\ [][NextDetector]_vars

\* the operations of the Anomaly Scorer that do not use the fitted model
NextSpike == fit \/ detect_sudden_spike \/ train_anomaly_detector
SpecSpike == InitIdle /\ [][NextSpike]_vars

NextForecast == train_simple_forecast \/ forecast_rainfall \/ forecast_flood_risk
SpecForecast == InitIdle /\ [][NextForecast]_vars

\* a fit and a detect on one AnomalyDetector, a train and a forecast on one
\* ForecastService, each pair in two threads
NextRefit ==
    \/ FitScaler \/ FitModel \/ FitFlag
    \/ DetectCheck \/ DetectScale \/ DetectScore
    \/ TrainScaler \/ TrainReplace \/ TrainFit \/ TrainFlag
    \/ ForecastCheck \/ ForecastScale \/ ForecastPredict
SpecRefit == InitIdle /\ [][NextRefit]_vars

\* fit and train_simple_forecast called one after the other on one
\* instance each, some of the calls on a frame that makes them raise
NextRefitFail ==
    \/ FitScaler \/ FitModel \/ FitFlag \/ FitScalerRaise
    \/ TrainScaler \/ TrainReplace \/ TrainFit \/ TrainFlag
    \/ TrainScalerRaise \/ TrainFitRaise
SpecRefitFail == InitIdle /\ [][NextRefitFail]_vars

NextEnrich == engineer_features \/ engineer_again
SpecEnrich == InitIdle /\ [][NextEnrich]_vars

NextRainTrend == rain_trend
SpecRainTrend == InitIdle /\ [][NextRainTrend]_vars

\* the DataCollector as main.py drives it: start at startup, stop at
\* shutdown, collect_now on request
NextCollector == start \/ stop \/ collect_now
SpecCollector == InitAgg /\ [][NextCollector]_vars

NextTrend == get_trend_analysis
SpecTrend == InitIdle /\ [][NextTrend]_vars

-----------------------------------------------------------------------------
(* Properties of the Anomaly Scorer. *)

\* C5: detect on a detector whose is_fitted is false returns anomaly_score 0,
\* is_anomaly false and severity "unknown" for every dictionary, the empty
\* one included, does not raise, and leaves the detector as it was.
C5_UntrainedDetect ==
    /\ [](det_out.call = "detect" /\ ~det_out.is_fitted =>
              /\ ~det_out.raised
              /\ det_out.result.anomaly_score = 0
              /\ det_out.result.is_anomaly = FALSE
              /\ det_out.result.severity = "unknown")
    /\ [][~det.is_fitted /\ det_out' # det_out => det' = det]_vars

\* detect was called with {} on a detector that was never fitted.
C5_Witness ==
    /\ det_out.call = "detect"
    /\ ~det_out.is_fitted
    /\ det_out.current_data = EmptyDict
    /\ det = NewDetector

-----------------------------------------------------------------------------
(* Properties of the Forecast Engine. *)

UntrainedCall == fs_call.call = "forecast_rainfall" /\ ~fs_call.is_trained
TrainedCall   == fs_call.call = "forecast_rainfall" /\ fs_call.is_trained

\* y is x to two decimal places: a whole number of hundredths, nearest to x
ToTwoDecimals(y, x) == y % 10 = 0 /\ y - x <= 5 /\ x - y <= 5

\* C6 as claimed: an Untrained forecast_rainfall returns hours_ahead points
\* numbered 1..N, each with rainfall_mm equal to the current reading,
\* confidence "low" and method "persistence".
C6_PersistenceExact ==
    UntrainedCall =>
        /\ Len(fs_out) = fs_call.hours_ahead
        /\ \A i \in 1..Len(fs_out) :
              /\ fs_out[i].hours_ahead = i
              /\ "rain_mm" \in DOMAIN fs_call.current_data =>
                    fs_out[i].rainfall_mm = fs_call.current_data["rain_mm"]
              /\ fs_out[i].confidence = "low"
              /\ fs_out[i].method = "persistence"

\* C6 as amended: ... each with rainfall_mm equal to the current reading
\* rounded to two decimal places (0 when current_data has no rain_mm),
\* confidence "low" and method "persistence".
C6_PersistenceRounded ==
    UntrainedCall =>
        /\ Len(fs_out) = fs_call.hours_ahead
        /\ \A i \in 1..Len(fs_out) :
              /\ fs_out[i].hours_ahead = i
              /\ IF "rain_mm" \in DOMAIN fs_call.current_data
                 THEN ToTwoDecimals(fs_out[i].rainfall_mm,
                                    fs_call.current_data["rain_mm"])
                 ELSE fs_out[i].rainfall_mm = 0
              /\ fs_out[i].confidence = "low"
              /\ fs_out[i].method = "persistence"

\* An Untrained forecast of three hours or more from a reading with more
\* than two decimals.
C6_Witness ==
    /\ UntrainedCall
    /\ fs_call.hours_ahead >= 3
    /\ "rain_mm" \in DOMAIN fs_call.current_data
    /\ fs_call.current_data["rain_mm"] % 10 # 0

\* C7: a Trained forecast_rainfall returns no negative rainfall_mm, whatever
\* the regression predicts and whatever the seed is: each prediction is
\* raised to 0 before it is appended to rain_history and before it is
\* emitted.
C7_NonNegativeForecast ==
    TrainedCall =>
        /\ Len(fs_out) = fs_call.hours_ahead
        /\ Len(fs_call.rain_history) = fs_call.hours_ahead + 1
        /\ \A i \in 1..Len(fs_out) :
              /\ fs_out[i].rainfall_mm >= 0
              /\ fs_call.rain_history[i + 1] >= 0
              /\ fs_call.rain_history[i + 1] >= fs_call.raw[i]
              /\ fs_call.raw[i] >= 0 => fs_call.rain_history[i + 1] = fs_call.raw[i]
              /\ ToTwoDecimals(fs_out[i].rainfall_mm, fs_call.rain_history[i + 1])

\* A Trained forecast from a negative seed in which the regression predicted
\* negative rain at some hour after the first.
C7_Witness ==
    /\ TrainedCall
    /\ fs_call.rain_history[1] < 0
    /\ \E i \in 2..Len(fs_call.raw) : fs_call.raw[i] < 0

Rank(level) ==
    CASE level = "low" -> 0
      [] level = "moderate" -> 1
      [] level = "high" -> 2
      [] level = "critical" -> 3

\* C9: every point forecast_flood_risk returns carries the tier that
\* get_risk_level gives for the point's own risk_score.
C9_TierConsistent ==
    risk_out.called =>
        \A i \in 1..Len(risk_out.risk_forecasts) :
            risk_out.risk_forecasts[i].risk_level
                = get_risk_level(risk_out.risk_forecasts[i].risk_score)

\* C10: over a forecast with no negative rainfall_mm, cumulative_rainfall_mm
\* never decreases along the sequence and neither does the tier, in the
\* order low < moderate < high < critical.
C10_MonotonicRisk ==
    (risk_out.called /\ \A i \in 1..Len(fs_out) : fs_out[i].rainfall_mm >= 0) =>
        /\ Len(risk_out.risk_forecasts) = Len(fs_out)
        /\ \A i, j \in 1..Len(risk_out.risk_forecasts) :
              i <= j =>
                /\ risk_out.risk_forecasts[i].cumulative_rainfall_mm
                      <= risk_out.risk_forecasts[j].cumulative_rainfall_mm
                /\ Rank(risk_out.risk_forecasts[i].risk_level)
                      <= Rank(risk_out.risk_forecasts[j].risk_level)

\* A forecast whose risk climbs through all four tiers.
C10_Witness ==
    /\ risk_out.called
    /\ \A i \in 1..Len(fs_out) : fs_out[i].rainfall_mm >= 0
    /\ \A level \in {"low", "moderate", "high", "critical"} :
          \E i \in 1..Len(risk_out.risk_forecasts) :
              risk_out.risk_forecasts[i].risk_level = level

-----------------------------------------------------------------------------
(* Properties of the Risk Classifier. *)

\* the tiers as the claim gives them
TierOf(s) ==
    IF s < 30 THEN "low"
    ELSE IF s < 60 THEN "moderate"
    ELSE IF s < 80 THEN "high"
    ELSE "critical"

\* C8: each of the three copies of get_risk_level answers, for every score,
\* low below 0.3, moderate from 0.3 to below 0.6, high from 0.6 to below 0.8
\* and critical from 0.8 on; the three agree, and a greater score never gets
\* a lower tier.
C8_RiskLevels ==
    /\ \A i \in 1..Len(risk_calls) :
          /\ risk_calls[i].main = TierOf(risk_calls[i].score)
          /\ risk_calls[i].import = TierOf(risk_calls[i].score)
          /\ risk_calls[i].migrate = TierOf(risk_calls[i].score)
    /\ \A i, j \in 1..Len(risk_calls) :
          risk_calls[i].score <= risk_calls[j].score =>
              /\ Rank(risk_calls[i].main) <= Rank(risk_calls[j].main)
              /\ Rank(risk_calls[i].import) <= Rank(risk_calls[j].import)
              /\ Rank(risk_calls[i].migrate) <= Rank(risk_calls[j].migrate)

\* Two calls on either side of the first threshold.
C8_Witness ==
    /\ Len(risk_calls) = 2
    /\ risk_calls[1].score = RISK_MODERATE
    /\ risk_calls[2].score = RISK_MODERATE - 1
    /\ risk_calls[1].main # risk_calls[2].main

-----------------------------------------------------------------------------
(* Properties of the Anomaly Scorer's state machine and helpers. *)

\* C11: once is_fitted is true, no fit, detect, save or load makes it false
\* again, so detect never returns the "unknown" verdict again.
C11_OneWay == [][det.is_fitted => det'.is_fitted]_vars

\* C15: detect_sudden_spike depends only on its three arguments: a
\* recent_avg of 0 is replaced by 0.1, ratio = current / recent_avg,
\* is_spike = (ratio >= threshold), severity is high if ratio >= 2 * threshold,
\* else moderate if is_spike, else low; current 3.0, recent_avg 0 and
\* threshold 2.0 give ratio 30, a spike of severity high.  The detector's
\* model, scaler and is_fitted are left as they were, fitted or not.
C15_SuddenSpike ==
    /\ [](det_spike.call = "detect_sudden_spike" =>
            LET c   == det_spike.current_rain
                avg == IF det_spike.recent_avg = 0 THEN 100 ELSE det_spike.recent_avg
                t   == det_spike.threshold
                r   == det_spike.result
                \* c / avg >= x / 1000
                AtLeast(x) == IF avg > 0 THEN 1000 * c >= x * avg
                              ELSE 1000 * c <= x * avg
            IN /\ r.recent_avg = avg
               /\ r.current_rain = c
               /\ r.spike_ratio.num * avg = c * r.spike_ratio.den
               /\ r.is_spike <=> AtLeast(t)
               /\ r.severity = IF AtLeast(2 * t) THEN "high"
                               ELSE IF r.is_spike THEN "moderate" ELSE "low"
               /\ (c = 3000 /\ det_spike.recent_avg = 0 /\ t = 2000) =>
                     /\ r.spike_ratio.num = 30 * r.spike_ratio.den
                     /\ r.is_spike
                     /\ r.severity = "high")
    /\ [][det_spike' # det_spike => det' = det]_vars

\* The call of the scenario, on a fitted detector.
C15_Witness ==
    /\ det_spike.call = "detect_sudden_spike"
    /\ det_spike.before.is_fitted
    /\ det_spike.current_rain = 3000
    /\ det_spike.recent_avg = 0
    /\ det_spike.threshold = SPIKE_THRESHOLD
    /\ det_spike.result.severity = "high"

\* C17: train_anomaly_detector calls fit only when it has at least
\* min_samples rows, with a database session and without one; with fewer
\* rows it returns no detector.
C17_FitOnlyOnEnoughRows ==
    det_train.call = "train_anomaly_detector" =>
        /\ det_train.fit_called => det_train.rows >= det_train.min_samples
        /\ det_train.rows < det_train.min_samples => ~det_train.returned

-----------------------------------------------------------------------------
(* Properties of the Forecast Engine's training. *)

\* C12: train_simple_forecast with fewer than 24 rows changes none of
\* is_trained, scaler and rainfall_model (the engine changes only in a call
\* with 24 rows or more): an Untrained engine stays Untrained and the
\* forecast_rainfall that follows returns the persistence forecast, a
\* Trained engine keeps its model.  With exactly 24 rows the engine is
\* trained.
C12_TrainRefusal ==
    /\ [][fs' # fs =>
            /\ fs_train'.call = "train_simple_forecast"
            /\ fs_train'.rows >= 24]_vars
    /\ [][(/\ fs_train.call = "train_simple_forecast"
           /\ fs_train.rows < 24
           /\ ~fs.is_trained
           /\ fs_call' # fs_call) =>
              /\ fs' = fs
              /\ Len(fs_out') = fs_call'.hours_ahead
              /\ \A i \in 1..Len(fs_out') :
                    /\ fs_out'[i].method = "persistence"
                    /\ fs_out'[i].confidence = "low"]_vars
    /\ [](fs_train.call = "train_simple_forecast" /\ fs_train.rows = 24 =>
            /\ fs.is_trained
            /\ fs.rainfall_model \in FittedModels
            /\ fs.scaler = fs.rainfall_model.name)

\* The last frame, of 23 rows, left the engine Untrained, and
\* forecast_rainfall returned persistence points.
C12_Witness ==
    /\ fs_train.call = "train_simple_forecast"
    /\ fs_train.rows = MIN_TRAIN_ROWS - 1
    /\ fs = NewForecastService
    /\ fs_call.call = "forecast_rainfall"
    /\ Len(fs_out) >= 2
    /\ fs_out[2].method = "persistence"

-----------------------------------------------------------------------------
(* Properties of the forecast points and of the autoregressive loop. *)

ForecastPointFields == {"timestamp", "hours_ahead", "rainfall_mm", "confidence", "method"}

\* C18: every point forecast_rainfall returns, Untrained or Trained, has the
\* five fields timestamp, hours_ahead (at least 1), rainfall_mm (at least
\* 0), confidence and method; a Trained point has confidence "medium".
C18_ForecastPointFields ==
    fs_call.call = "forecast_rainfall" =>
        \A i \in 1..Len(fs_out) :
            /\ DOMAIN fs_out[i] = ForecastPointFields
            /\ fs_out[i].hours_ahead >= 1
            /\ fs_out[i].rainfall_mm >= 0
            /\ fs_call.is_trained => fs_out[i].confidence = "medium"

\* the current reading the loop is seeded with
Seed == DictGet(fs_call.current_data, "rain_mm", 0)

\* C19: the Trained forecast folds over a history seeded with the current
\* reading: after the call the history is [seed, p_1, ..., p_N] with p_h the
\* prediction of step h raised to 0; the lag-1 input of step h is the entry
\* before it (the seed for h = 1); the lag-3 input is p_(h-3) for h > 3 and
\* the seed for h <= 3.
C19_AutoregressiveFold ==
    TrainedCall =>
        LET H == fs_call.rain_history
            F == fs_call.features
        IN /\ Len(H) = fs_call.hours_ahead + 1
           /\ Len(F) = fs_call.hours_ahead
           /\ H[1] = Seed
           /\ \A h \in 1..fs_call.hours_ahead :
                 /\ H[h + 1] = IF fs_call.raw[h] > 0 THEN fs_call.raw[h] ELSE 0
                 /\ F[h].rain_lag_1h = H[h]
                 /\ F[h].rain_lag_3h = IF h > 3 THEN H[h - 2] ELSE Seed

\* A Trained forecast of four hours or more whose predictions moved away
\* from the seed, so that the lags of steps 2 and 4 are predictions.
C19_Witness ==
    /\ TrainedCall
    /\ fs_call.hours_ahead >= 4
    /\ fs_call.features[2].rain_lag_1h # Seed
    /\ fs_call.features[4].rain_lag_3h # Seed
    /\ fs_call.features[4].rain_lag_3h # fs_call.features[4].rain_lag_1h

RECURSIVE Repeat(_, _)
Repeat(x, n) == IF n <= 0 THEN <<>> ELSE <<x>> \o Repeat(x, n - 1)

\* the six most recent entries of xs, padded with x in front when xs has
\* fewer than six
LastSixPadded(xs, x) ==
    IF Len(xs) >= 6 THEN SubSeq(xs, Len(xs) - 5, Len(xs))
    ELSE Repeat(x, 6 - Len(xs)) \o xs

\* C20: the mean-6 input of step h of a Trained forecast is the mean of the
\* six most recent entries of [seed, p_1, ..., p_(h-1)], the history being
\* padded with the seed to six entries when it is shorter.
C20_MeanOfSix ==
    TrainedCall =>
        \A h \in 1..fs_call.hours_ahead :
            fs_call.features[h].rain_avg_6h
                = Mean(LastSixPadded(SubSeq(fs_call.rain_history, 1, h), Seed))

-----------------------------------------------------------------------------
(* Properties of the trend analysis. *)

\* the rows get_trend_analysis was given, whatever their order
TrendData ==
    {fs_trend.historical_data[i] : i \in 1..Len(fs_trend.historical_data)}

\* the n rows of S with the latest timestamps
MostRecent(S, n) ==
    {r \in S : Cardinality({x \in S : x.timestamp > r.timestamp}) < n}

RECURSIVE RainTotal(_)
RainTotal(S) ==
    IF S = {} THEN 0
    ELSE LET r == CHOOSE x \in S : TRUE IN r.rain_mm + RainTotal(S \ {r})

TrendRetained  == MostRecent(TrendData, fs_trend.hours)
TrendRecentSix == MostRecent(TrendRetained, 6)
TrendOlder ==
    IF Cardinality(TrendRetained) > 6 THEN TrendRetained \ TrendRecentSix
    ELSE {r \in TrendRetained : \A x \in TrendRetained : r.timestamp <= x.timestamp}

TrendUnknown ==
    Cardinality(TrendData) < 2 \/ Cardinality(TrendRetained) < 2

\* (recent_avg - older_avg) / (older_avg + 0.1) * 100 as the quotient of
\* RateNum and RateDen, from the sums and sizes of the two groups
RateNum ==
    100 * (RainTotal(TrendRecentSix) * Cardinality(TrendOlder)
             - RainTotal(TrendOlder) * Cardinality(TrendRecentSix))
RateDen ==
    Cardinality(TrendRecentSix)
        * (RainTotal(TrendOlder) + 100 * Cardinality(TrendOlder))

\* the scenario: readings 10 and 20, in either order
TrendScenario ==
    TrendData = {[timestamp |-> 1, rain_mm |-> 10000],
                 [timestamp |-> 2, rain_mm |-> 20000]}

\* C16 as claimed: the most recent `hours` readings by timestamp are used;
\* with fewer than 2 supplied or retained the result is trend "unknown",
\* change_rate 0; otherwise change_rate is
\* (recent_avg - older_avg) / (older_avg + 0.1) * 100 and trend is
\* increasing above 20, decreasing below -20 and stable otherwise.
C16_TrendExact ==
    fs_trend.call = "get_trend_analysis" =>
        IF TrendUnknown
        THEN fs_trend.result = [trend |-> "unknown", change_rate |-> 0]
        ELSE /\ fs_trend.result.change_rate * RateDen = 100 * RateNum
             /\ fs_trend.result.trend =
                   IF fs_trend.result.change_rate > 2000 THEN "increasing"
                   ELSE IF fs_trend.result.change_rate < -2000 THEN "decreasing"
                   ELSE "stable"

\* C16 as amended: ... otherwise the rate
\* (recent_avg - older_avg) / (older_avg + 0.1) * 100 decides the trend
\* (increasing above 20, decreasing below -20, stable otherwise, 20 and -20
\* included) and the change_rate returned is that rate rounded to two
\* decimal places; readings 10 and 20 give averages 15 and 10, a
\* change_rate of 49.5 and trend increasing.
C16_TrendRounded ==
    fs_trend.call = "get_trend_analysis" =>
        IF TrendUnknown
        THEN fs_trend.result = [trend |-> "unknown", change_rate |-> 0]
        ELSE /\ fs_trend.result.trend =
                   IF RateNum > 20 * RateDen THEN "increasing"
                   ELSE IF RateNum < -20 * RateDen THEN "decreasing"
                   ELSE "stable"
             /\ 2 * (100 * RateNum - fs_trend.result.change_rate * RateDen) <= RateDen
             /\ 2 * (fs_trend.result.change_rate * RateDen - 100 * RateNum) <= RateDen
             /\ TrendScenario /\ fs_trend.hours >= 2 =>
                   /\ fs_trend.result.recent_average = 15000
                   /\ fs_trend.result.older_average = 10000
                   /\ fs_trend.result.change_rate = 4950
                   /\ fs_trend.result.trend = "increasing"

\* Eight rows given latest first and seven of them retained: the earliest
\* retained reading is the older group, the last six the recent one.
C16_Witness ==
    /\ fs_trend.call = "get_trend_analysis"
    /\ Len(fs_trend.historical_data) = 8
    /\ fs_trend.historical_data[1].timestamp > fs_trend.historical_data[2].timestamp
    /\ fs_trend.hours = 7
    /\ Cardinality(TrendOlder) = 1
    /\ fs_trend.result.trend = "increasing"

-----------------------------------------------------------------------------
(* Properties of a fit or a training that runs beside a reader. *)

\* C13: a detect or forecast_rainfall that runs while fit or
\* train_simple_forecast runs on the same instance uses the complete old
\* triple of model, scaler and flag or the complete new one: never a scaler
\* of one fit with the model of another, never a model that was replaced
\* and is not fitted yet.
C13_AtomicSwap ==
    /\ (det_read.done /\ det_read.is_fitted) =>
          /\ det_read.scaler = det_read.model
          /\ det_read.model # 0
    /\ (fc_read.done /\ fc_read.is_trained) =>
          /\ fc_read.scaler = fc_read.model
          /\ fc_read.model \notin {"None", "unfitted"}

-----------------------------------------------------------------------------
(* Properties of enrichment. *)

\* the columns engineer_features adds to the row it was given
DerivedColumns == DOMAIN en_once \ DOMAIN en_row.df

\* C14: enriching an enriched row again reproduces every derived field,
\* rows with null drainage_score, slope_pct or elevation_m included.
C14_Idempotent ==
    (en_row.call = "engineer_features" /\ en_twice # EmptyDict) =>
        /\ DOMAIN en_twice = DOMAIN en_once
        /\ \A c \in DerivedColumns : en_twice[c] = en_once[c]


-----------------------------------------------------------------------------
(* Properties of forecast_flood_risk, of detect and of the spike test. *)

\* the sum of rainfall_mm over the first k points of a forecast
RainOfFirst(forecast, k) == SeqSum(SubSeq(forecast, 1, k))

\* the tier and the score the claim gives for a cumulative rainfall, in
\* thousandths of a millimetre and hundredths
TierOfRain(c) ==
    IF c > 100000 THEN <<"critical", 90>>
    ELSE IF c > 50000 THEN <<"high", 70>>
    ELSE IF c > 25000 THEN <<"moderate", 50>>
    ELSE <<"low", 30>>

\* C21: forecast_flood_risk returns one point per input point, in the same
\* order and with the same timestamp, hours_ahead and rainfall_mm; the k-th
\* cumulative_rainfall_mm is the sum of rainfall_mm over the first k inputs;
\* the tier and score follow the strict thresholds > 100, > 50, > 25 of
\* that sum, so exactly 25, 50 and 100 mm give low, moderate and high;
\* nothing else (the conditions argument, the service's model) enters.
C21_RiskForecastPoints ==
    risk_out.called =>
        /\ Len(risk_out.risk_forecasts) = Len(fs_out)
        /\ \A k \in 1..Len(fs_out) :
              LET point == risk_out.risk_forecasts[k]
                  total == RainOfFirst([i \in 1..Len(fs_out) |->
                                           fs_out[i].rainfall_mm], k)
              IN /\ point.timestamp = fs_out[k].timestamp
                 /\ point.hours_ahead = fs_out[k].hours_ahead
                 /\ point.rainfall_mm = fs_out[k].rainfall_mm
                 /\ point.cumulative_rainfall_mm = total
                 /\ <<point.risk_level, point.risk_score>> = TierOfRain(total)

\* A risk forecast whose cumulative rainfall passes through exactly 25, 50
\* and 100 mm.
C21_Witness ==
    /\ risk_out.called
    /\ \E i, j, k \in 1..Len(risk_out.risk_forecasts) :
          /\ risk_out.risk_forecasts[i].cumulative_rainfall_mm = 25000
          /\ risk_out.risk_forecasts[i].risk_level = "low"
          /\ risk_out.risk_forecasts[j].cumulative_rainfall_mm = 50000
          /\ risk_out.risk_forecasts[j].risk_level = "moderate"
          /\ risk_out.risk_forecasts[k].cumulative_rainfall_mm = 100000
          /\ risk_out.risk_forecasts[k].risk_level = "high"


\* the severity the claim gives for a Trained answer, scores in hundredths
SeverityOfClaim(is_anomaly, score) ==
    CASE ~is_anomaly -> "low"
      [] is_anomaly /\ score < -50 -> "critical"
      [] is_anomaly /\ -50 <= score /\ score < -30 -> "high"
      [] is_anomaly /\ score >= -30 -> "moderate"

\* C22: detect on a Trained detector answers severity "low" exactly when
\* is_anomaly is false, and for an anomaly "critical" below -0.5, "high"
\* from -0.5 up to but not including -0.3, "moderate" from -0.3 on; it
\* never answers "unknown"; and the call leaves the detector's model,
\* scaler and is_fitted as they were.
C22_TrainedSeverity ==
    /\ [](det_out.call = "detect" /\ det_out.is_fitted =>
            /\ ~det_out.raised
            /\ det_out.result.severity
                  = SeverityOfClaim(det_out.result.is_anomaly,
                                    det_out.result.anomaly_score)
            /\ det_out.result.severity = "low"
                  <=> ~det_out.result.is_anomaly
            /\ det_out.result.severity # "unknown")
    /\ [][det_out' # det_out => det' = det]_vars

\* A Trained detect that flagged an anomaly with a score of exactly -0.5.
C22_Witness ==
    /\ det_out.call = "detect"
    /\ det_out.is_fitted
    /\ ~det_out.raised
    /\ det_out.result.is_anomaly
    /\ det_out.result.anomaly_score = -50
    /\ det_out.result.severity = "high"


\* severity and is_spike of the last detect_sudden_spike say the same
SpikeSeverityAgrees ==
    LET r == det_spike.result
    IN /\ r.severity = "low" <=> ~r.is_spike
       /\ r.severity \in {"high", "moderate"} => r.is_spike

\* C28: the severity detect_sudden_spike answers agrees with its is_spike
\* flag for every current, recent_avg and threshold, zero and negative
\* thresholds and negative recent_avg included: "low" exactly when is_spike
\* is false, "high" or "moderate" only when it is true.
C28_SeverityAgreesAlways ==
    det_spike.call = "detect_sudden_spike" => SpikeSeverityAgrees

\* C28, for thresholds that are not negative: there 2 * threshold is at
\* least threshold, so a ratio that reaches the first reaches the second.
C28_SeverityAgrees ==
    (det_spike.call = "detect_sudden_spike" /\ det_spike.threshold >= 0) =>
        SpikeSeverityAgrees

\* A call with threshold 0 and a negative recent_avg: the ratio is negative
\* and the call is no spike.
C28_Witness ==
    /\ det_spike.call = "detect_sudden_spike"
    /\ det_spike.threshold = 0
    /\ det_spike.recent_avg < 0
    /\ det_spike.current_rain > 0
    /\ ~det_spike.result.is_spike
    /\ det_spike.result.severity = "low"


-----------------------------------------------------------------------------
(* Properties of enrichment's frame and of its closing clean-up. *)

\* C24: enrichment is additive: every field of the row engineer_features is
\* given, null-valued base fields included, has the same value in the row
\* it returns; only the derived fields are added.
C24_Additive ==
    en_row.call = "engineer_features" =>
        \A c \in DOMAIN en_row.df :
            /\ c \in DOMAIN en_once
            /\ en_once[c] = en_row.df[c]

\* a cell that holds a number: neither null nor infinite
IsNumber(cell) == Len(cell) = 1

\* C25: no field of the row engineer_features returns is null or infinite;
\* a value that would be null (derived from a null base field) or infinite
\* (rain_trend with rain_sum_12h = -1, rain_spike with a zero denominator)
\* is 0.
C25_NoNullNoInf ==
    en_row.call = "engineer_features" =>
        LET df == en_row.df
        IN /\ \A c \in DOMAIN en_once : IsNumber(en_once[c])
           /\ \A c \in DOMAIN en_twice : IsNumber(en_twice[c])
           /\ df["rain_sum_12h"] = Cell(-1000) => en_once["rain_trend"] = Cell(0)
           /\ df["rain_sum_3h"] = Cell(-300) => en_once["rain_spike"] = Cell(0)
           /\ df["elevation_m"] = NaN => en_once["elevation_risk"] = Cell(0)
           /\ df["drainage_score"] = NaN =>
                 /\ en_once["drainage_effectiveness"] = Cell(0)
                 /\ en_once["cumulative_risk"] = Cell(0)
           /\ df["slope_pct"] = NaN => en_once["drainage_effectiveness"] = Cell(0)

\* An enrichment of a row with rain_sum_12h = -1 and a null elevation_m:
\* rain_trend is a positive number over zero and elevation_risk is null
\* before the clean-up.
C25_Witness ==
    /\ en_row.call = "engineer_features"
    /\ en_row.df["rain_sum_12h"] = Cell(-1000)
    /\ en_row.df["rain_sum_3h"] = Cell(-300)
    /\ en_row.df["elevation_m"] = NaN
    /\ AddStatisticalFeatures(en_row.df)["rain_trend"] = Inf
    /\ AddStatisticalFeatures(en_row.df)["rain_spike"] = NegInf
    /\ en_once["rain_trend"] = Cell(0)
    /\ en_once["elevation_risk"] = Cell(0)


-----------------------------------------------------------------------------
(* Properties of a fit that raises. *)

\* C23: between calls, a true trained flag implies a fitted model whose
\* scaler is the one it was trained with, also after a fit or a
\* train_simple_forecast on a Trained instance raised part-way: the
\* previous model and scaler remain in effect and a later detect or
\* forecast_rainfall succeeds.
C23_FailedRefitKeepsModel ==
    /\ (fit_pc.pc = "idle" /\ det.is_fitted) =>
          /\ det.model # 0
          /\ det.scaler = det.model
    /\ (train_pc.pc = "idle" /\ fs.is_trained) =>
          /\ fs.rainfall_model.name \notin {"None", "unfitted"}
          /\ fs.scaler = fs.rainfall_model.name


-----------------------------------------------------------------------------
(* Properties of rain_trend. *)

\* the first n rows of the table hold no negative rainfall
NonNegativeUpTo(n) == \A j \in 1..n : db[j].rain_mm >= 0

\* -1 < num / den <= 0 with a denominator that is not zero
TrendInRange(trend) ==
    /\ trend.den # 0
    /\ IF trend.den > 0
       THEN -trend.den < trend.num /\ trend.num <= 0
       ELSE -trend.den > trend.num /\ trend.num >= 0

\* C26: for every row the Window Aggregator produces from rainfall values
\* that are not negative, sum_3h <= sum_12h, the denominator sum_12h + 1 is
\* not zero and rain_trend = (sum_3h - sum_12h) / (sum_12h + 1) lies in
\* (-1, 0]; so does the value predict_realtime hands to the detector.
C26_TrendNeverPositive ==
    /\ \A i \in 1..Len(db) :
          NonNegativeUpTo(i) =>
              /\ db[i].rain_sum_3h <= db[i].rain_sum_12h
              /\ db[i].rain_sum_12h + 1000 > 0
              /\ TrendInRange(RainTrendUnguarded(Cell(db[i].rain_sum_3h),
                                                 Cell(db[i].rain_sum_12h)))
    /\ (p_pc = "done" /\ p_weather.rain_mm >= 0 /\ NonNegativeUpTo(p_seen)) =>
          /\ p_windows.rain_sum_3h <= p_windows.rain_sum_12h
          /\ TrendInRange(RainTrendUnguarded(Cell(p_windows.rain_sum_3h),
                                             Cell(p_windows.rain_sum_12h)))
          /\ TrendInRange(RainTrendScoring(Cell(p_windows.rain_sum_3h),
                                           Cell(p_windows.rain_sum_12h)))

\* A stored row whose 12-hour window holds rain that its 3-hour window does
\* not: its rain_trend is below zero.
C26_Witness ==
    \E i \in 1..Len(db) :
        /\ NonNegativeUpTo(i)
        /\ 0 < db[i].rain_sum_3h
        /\ db[i].rain_sum_3h < db[i].rain_sum_12h

\* the two quotients are the same number
SameTrend(a, b) ==
    /\ a.den # 0
    /\ b.den # 0
    /\ a.num * b.den = b.num * a.den

\* C27: for every row with 0 <= rain_sum_3h <= rain_sum_12h the rain_trend
\* predict_realtime computes for scoring (0 unless rain_sum_12h > 0) and the
\* one train_anomaly_detector computes from the database (0 when
\* rain_sum_12h is 0 or null) both equal the unguarded
\* (rain_sum_3h - rain_sum_12h) / (rain_sum_12h + 1) of enrichment and of
\* the CSV training path.
C27_TrendsAgree ==
    (/\ rt_call.call = "rain_trend"
     /\ rt_call.rain_sum_12h # NaN
     /\ 0 <= rt_call.rain_sum_3h[1]
     /\ rt_call.rain_sum_3h[1] <= rt_call.rain_sum_12h[1]) =>
        /\ SameTrend(rt_call.scoring, rt_call.unguarded)
        /\ SameTrend(rt_call.training, rt_call.unguarded)

\* The row with both sums 0, where the two guards put 0 in place of the
\* formula.
C27_Witness ==
    /\ rt_call.call = "rain_trend"
    /\ rt_call.rain_sum_3h = Cell(0)
    /\ rt_call.rain_sum_12h = Cell(0)
    /\ rt_call.scoring = [num |-> 0, den |-> 1]
    /\ rt_call.training = [num |-> 0, den |-> 1]
    /\ rt_call.unguarded = [num |-> 0, den |-> 1000]


-----------------------------------------------------------------------------
(* Properties of the DataCollector. *)

\* C29: a call of collect_weather_data adds at most one row to the table
\* and leaves the rows that were there as they were; it adds none on the
\* "error_fallback" reading and none when a step of the cycle raised; the
\* exception does not leave the call; the session is closed however the
\* call ended.
C29_StoresNothingOnFailure ==
    /\ [](c_pc # "idle" =>
            /\ c_session = "closed"
            /\ ~c_propagated)
    /\ [][/\ Len(db') <= Len(db) + 1
          /\ SubSeq(db', 1, Len(db)) = db
          /\ (c_pc' = "skipped" \/ c_fault' # "none") => db' = db]_vars

\* the jobs of the scheduler with id 'weather_collection'
WeatherJobs == {i \in 1..Len(dc.jobs) : dc.jobs[i].id = "weather_collection"}

\* C30: is_running is true exactly when the last effective call was a
\* start: it changes only in a start that finds it false and in a stop that
\* finds it true; a start while running and a stop while not running
\* change nothing (no job is registered, nothing is collected, the
\* scheduler is not shut down again); the scheduler never holds more than
\* one job with id 'weather_collection'; collect_now leaves is_running as
\* it was.
C30_StartStop ==
    /\ [](/\ dc_call.op = "start" => dc.is_running
          /\ dc_call.op = "stop" => ~dc.is_running
          /\ dc_call.op = "collect_now" => dc = dc_call.before
          /\ (dc_call.op = "start" /\ dc_call.before.is_running) =>
                /\ dc = dc_call.before
                /\ ~dc_call.collected
                /\ ~dc_call.raised
          /\ (dc_call.op = "stop" /\ ~dc_call.before.is_running) =>
                /\ dc = dc_call.before
                /\ ~dc_call.raised
          /\ Cardinality(WeatherJobs) <= 1
          /\ dc.is_running <=> dc.scheduler = "running")
    /\ [][/\ dc'.is_running # dc.is_running =>
                \/ dc_call'.op = "start" /\ dc'.is_running
                \/ dc_call'.op = "stop" /\ ~dc'.is_running
          /\ (dc_call'.op = "start" /\ dc.is_running) => db' = db
          /\ dc_call'.op = "stop" => db' = db]_vars

\* A start on a collector that is running with its one job.
C30_Witness ==
    /\ dc_call.op = "start"
    /\ dc_call.before.is_running
    /\ dc.is_running
    /\ Cardinality(WeatherJobs) = 1

=============================================================================
